---- MODULE Spec2Model ----
(***************************************************************************)
(* Sitemap discovery -> extraction -> classification -> reconciliation     *)
(* pipeline of the minnesotadirectory neon-mcp-server scripts.             *)
(*                                                                         *)
(* The repository repeats the pipeline in several scripts; the variants    *)
(* modelled here are                                                       *)
(*   "scaled"   phase3_scaled_processor.py                                 *)
(*   "final"    phase3_final.py                                            *)
(*   "pilot"    phase2_pilot_fix.py                                        *)
(*   "fixer"    database_sitemap_fixer.py                                  *)
(*   "advanced" advanced_sitemap_parser.py   (extraction only)             *)
(*   "taxonomy" bi_page_classifier.py        (classification only)         *)
(*                                                                         *)
(* Strings are TLA+ strings; Python's substring test, lower(), strip(),    *)
(* startswith() and endswith() are computed character by character.        *)
(***************************************************************************)
EXTENDS Integers, Sequences, FiniteSets, TLC

VARIABLES
    variant,          \* which script is running the reconciliation
    website_pages,    \* store: structure id -> sequence of rows (table order)
    total_pages,      \* store: website_structures.total_pages per structure
    nextId,           \* store: next serial id of website_pages
    storeRejects,     \* store: URLs whose INSERT raises (constraint, oversized)
    problem_companies,\* the structures selected for repair by the batch query
    pc,               \* per structure: position of its fix_company_* coroutine
    real_pages,       \* per structure: candidates returned by discovery
    idx,              \* per structure: index of the insert loop
    inserted,         \* per structure: the local counter `inserted`
    result,           \* per structure: value returned by fix_company_*
    runs,             \* per structure: number of reconciliations started
    pre,              \* history: rows and count when the current run started
    prev,             \* history: candidates / outcome of the previous run
    stmts,            \* history: store statements executed by the current run
    rowFailed,        \* history: candidate positions whose INSERT raised
    failed,           \* history: the statement of the current run that raised
    observed,         \* reader: last result of a concurrent page query
    ex,               \* extractor check: document, domain, variant, output
    cl,               \* classifier check: url, title, variant, output
    walk,             \* discovery of one domain: locator and sitemap tree walk
    taxonomy,         \* the module-level table BI_TAXONOMY of bi_page_classifier
    calls,            \* history: the classifier calls made so far, in order
    batch             \* the batch run of phase3_scaled_deployment / phase3_complete_fix

vars == << variant, website_pages, total_pages, nextId, storeRejects,
           problem_companies, pc,
           real_pages, idx, inserted, result, runs, pre, prev, stmts,
           rowFailed, failed, observed, ex, cl, walk, taxonomy, calls, batch >>

storeVars == << website_pages, total_pages, nextId >>
fixVars == << pc, real_pages, idx, inserted, result, runs, pre, prev, stmts,
              rowFailed, failed >>

(***************************************************************************)
(* String primitives                                                       *)
(***************************************************************************)

\* Python: `p in s`
Contains(s, p) ==
    \E i \in 1..(Len(s) - Len(p) + 1) : SubSeq(s, i, i + Len(p) - 1) = p

\* Python: s.startswith(p)
StartsWith(s, p) == Len(s) >= Len(p) /\ SubSeq(s, 1, Len(p)) = p

\* Python: s.endswith(p)
EndsWith(s, p) ==
    Len(s) >= Len(p) /\ SubSeq(s, Len(s) - Len(p) + 1, Len(s)) = p

Upper == << "A", "B", "C", "D", "E", "F", "G", "H", "I", "J", "K", "L", "M",
            "N", "O", "P", "Q", "R", "S", "T", "U", "V", "W", "X", "Y", "Z" >>
LowerOf == << "a", "b", "c", "d", "e", "f", "g", "h", "i", "j", "k", "l", "m",
              "n", "o", "p", "q", "r", "s", "t", "u", "v", "w", "x", "y", "z" >>

LowerChar(c) ==
    IF \E k \in 1..Len(Upper) : Upper[k] = c
    THEN LowerOf[CHOOSE k \in 1..Len(Upper) : Upper[k] = c]
    ELSE c

RECURSIVE LowerFrom(_, _)
LowerFrom(s, i) ==
    IF i > Len(s) THEN ""
    ELSE LowerChar(SubSeq(s, i, i)) \o LowerFrom(s, i + 1)

\* Python: s.lower()
Lower(s) == LowerFrom(s, 1)

IsSpace(c) == c \in {" ", "\n", "\t"}

RECURSIVE LStrip(_)
LStrip(s) ==
    IF Len(s) > 0 /\ IsSpace(SubSeq(s, 1, 1))
    THEN LStrip(SubSeq(s, 2, Len(s)))
    ELSE s

RECURSIVE RStrip(_)
RStrip(s) ==
    IF Len(s) > 0 /\ IsSpace(SubSeq(s, Len(s), Len(s)))
    THEN RStrip(SubSeq(s, 1, Len(s) - 1))
    ELSE s

\* Python: s.strip()
Strip(s) == RStrip(LStrip(s))

\* Python: any(k in s for k in keywords)
AnyIn(keywords, s) == \E k \in 1..Len(keywords) : Contains(s, keywords[k])

(***************************************************************************)
(* BIClassifier                                                            *)
(***************************************************************************)

\* bi_page_classifier.BI_TAXONOMY, in dict (insertion) order
BI_TAXONOMY ==
   <<
      [ name |-> "careers", tier |-> 1,
        intelligence |->
          "Hiring activity, growth indicators, business expansion signals",
        url_patterns |-> << "/careers", "/jobs", "/employment",
            "/opportunities", "/hiring", "/work-with-us", "/join-us" >>,
        title_patterns |-> << "careers", "jobs", "employment",
            "opportunities", "join us", "work with us", "hiring",
            "open positions" >> ],
      [ name |-> "services", tier |-> 1,
        intelligence |->
          "Revenue streams, core competencies, competitive positioning",
        url_patterns |-> << "/services", "/solutions", "/offerings",
            "/capabilities", "/expertise", "/what-we-do" >>,
        title_patterns |-> << "services", "solutions", "what we do",
            "capabilities", "offerings", "expertise" >> ],
      [ name |-> "products", tier |-> 1,
        intelligence |->
          "Product portfolio, market focus, innovation pipeline",
        url_patterns |-> << "/products", "/catalog", "/portfolio", "/brands",
            "/shop" >>,
        title_patterns |-> << "products", "catalog", "portfolio", "brands",
            "offerings", "shop" >> ],
      [ name |-> "about", tier |-> 1,
        intelligence |->
          "Mission, history, size, business model, values",
        url_patterns |-> << "/about", "/company", "/who-we-are", "/overview",
            "/our-story" >>,
        title_patterns |-> << "about", "company", "who we are", "overview",
            "our story", "about us" >> ],
      [ name |-> "team", tier |-> 2,
        intelligence |->
          "Leadership depth, expertise, company culture, decision makers",
        url_patterns |-> << "/team", "/leadership", "/people", "/staff",
            "/management", "/executives", "/board", "/founders" >>,
        title_patterns |-> << "team", "leadership", "people", "staff",
            "management", "executives", "our team", "meet the team",
            "board of directors", "founders" >> ],
      [ name |-> "news", tier |-> 2,
        intelligence |->
          "Market activity, thought leadership, PR activity, company momentum",
        url_patterns |-> << "/news", "/blog", "/insights", "/updates",
            "/press", "/media", "/articles", "/resources" >>,
        title_patterns |-> << "news", "blog", "insights", "updates",
            "press releases", "media", "articles", "thought leadership",
            "resources" >> ],
      [ name |-> "locations", tier |-> 3,
        intelligence |->
          "Market reach, geographic expansion, operational footprint",
        url_patterns |-> << "/locations", "/offices", "/facilities",
            "/branches", "/stores", "/find-us" >>,
        title_patterns |-> << "locations", "offices", "facilities",
            "branches", "stores", "find us", "where we are" >> ],
      [ name |-> "contact", tier |-> 3,
        intelligence |->
          "Geographic presence, contact channels, business accessibility",
        url_patterns |-> << "/contact", "/reach-us", "/get-in-touch",
            "/connect" >>,
        title_patterns |-> << "contact", "reach us", "get in touch",
            "contact us", "connect" >> ],
      [ name |-> "case-studies", tier |-> 4,
        intelligence |->
          "Client quality, project scale, market positioning, success metrics",
        url_patterns |-> << "/case-studies", "/portfolio", "/work",
            "/projects", "/clients", "/success-stories", "/testimonials" >>,
        title_patterns |-> << "case studies", "portfolio", "our work",
            "projects", "success stories", "client stories", "testimonials" >> ],
      [ name |-> "industries", tier |-> 4,
        intelligence |->
          "Market segments, vertical expertise, industry positioning",
        url_patterns |-> << "/industries", "/sectors", "/markets",
            "/verticals", "/who-we-serve" >>,
        title_patterns |-> << "industries", "sectors", "markets",
            "verticals", "who we serve", "market focus" >> ],
      [ name |-> "investors", tier |-> 5,
        intelligence |->
          "Financial health, public company status, growth metrics",
        url_patterns |-> << "/investors", "/investor-relations",
            "/financials", "/sec-filings", "/earnings" >>,
        title_patterns |-> << "investors", "investor relations",
            "financials", "sec filings", "earnings" >> ],
      [ name |-> "legal", tier |-> 6,
        intelligence |->
          "Compliance status (minimal business intelligence)",
        url_patterns |-> << "/terms", "/privacy", "/legal", "/compliance",
            "/gdpr", "/ccpa", "/cookies" >>,
        title_patterns |-> << "terms", "privacy", "legal", "compliance",
            "gdpr", "ccpa", "cookie policy" >> ]
   >>

\* phase3_scaled_processor.get_enhanced_bi_classification: the if/elif chain
EnhancedRules ==
   <<
      [ name |-> "careers", tier |-> 1,
        intelligence |->
          "Hiring activity, growth indicators, business expansion signals",
        url_patterns |-> << "/career", "/job", "/hiring", "/employment",
            "/opportunity" >>,
        title_patterns |-> << >> ],
      [ name |-> "services", tier |-> 1,
        intelligence |->
          "Revenue streams, core competencies, competitive positioning",
        url_patterns |-> << "/service", "/solution", "/offering",
            "/capability" >>,
        title_patterns |-> << >> ],
      [ name |-> "products", tier |-> 1,
        intelligence |->
          "Product portfolio, market focus, innovation pipeline",
        url_patterns |-> << "/product", "/catalog", "/shop", "/store",
            "/brand" >>,
        title_patterns |-> << >> ],
      [ name |-> "about", tier |-> 1,
        intelligence |->
          "Mission, history, size, business model, values",
        url_patterns |-> << "/about", "/company", "/who-we-are",
            "/overview" >>,
        title_patterns |-> << >> ],
      [ name |-> "team", tier |-> 2,
        intelligence |->
          "Leadership depth, expertise, company culture, decision makers",
        url_patterns |-> << "/team", "/leadership", "/people", "/staff",
            "/management" >>,
        title_patterns |-> << >> ],
      [ name |-> "news", tier |-> 2,
        intelligence |->
          "Market activity, thought leadership, PR activity, company momentum",
        url_patterns |-> << "/news", "/blog", "/insight", "/article",
            "/press", "/media" >>,
        title_patterns |-> << >> ],
      [ name |-> "locations", tier |-> 3,
        intelligence |->
          "Market reach, geographic expansion, operational footprint",
        url_patterns |-> << "/location", "/office", "/facility", "/branch" >>,
        title_patterns |-> << >> ],
      [ name |-> "contact", tier |-> 3,
        intelligence |->
          "Geographic presence, contact channels, business accessibility",
        url_patterns |-> << "/contact", "/reach-us", "/get-in-touch" >>,
        title_patterns |-> << >> ]
   >>

\* phase3_final.classify_page_bi: the if/elif chain
FinalRules ==
   <<
      [ name |-> "careers", tier |-> 1,
        intelligence |->
          "Hiring activity, growth indicators, business expansion signals",
        url_patterns |-> << "/career", "/job", "/hiring", "/employment",
            "/opportunity" >>,
        title_patterns |-> << >> ],
      [ name |-> "products", tier |-> 1,
        intelligence |->
          "Product portfolio, market focus, innovation pipeline",
        url_patterns |-> << "/product", "/catalog", "/shop", "/store",
            "/brand" >>,
        title_patterns |-> << >> ],
      [ name |-> "services", tier |-> 1,
        intelligence |->
          "Revenue streams, core competencies, competitive positioning",
        url_patterns |-> << "/service", "/solution", "/offering",
            "/capability" >>,
        title_patterns |-> << >> ],
      [ name |-> "about", tier |-> 1,
        intelligence |->
          "Mission, history, size, business model, values",
        url_patterns |-> << "/about", "/company", "/who-we-are",
            "/overview" >>,
        title_patterns |-> << >> ],
      [ name |-> "team", tier |-> 2,
        intelligence |->
          "Leadership depth, expertise, company culture, decision makers",
        url_patterns |-> << "/team", "/leadership", "/people", "/staff",
            "/management" >>,
        title_patterns |-> << >> ],
      [ name |-> "news", tier |-> 2,
        intelligence |->
          "Market activity, thought leadership, PR activity, company momentum",
        url_patterns |-> << "/news", "/blog", "/insight", "/article",
            "/press" >>,
        title_patterns |-> << >> ]
   >>

\* phase2_pilot_fix.classify_business_page: the if/elif chain (the first
\* branch is the disjunction of its two any() tests)
PilotRules ==
   <<
      [ name |-> "products", tier |-> 1,
        intelligence |->
          "Product portfolio, market focus, innovation pipeline",
        url_patterns |-> << "/product", "/catalog", "/shop", "varroa",
            "beekeeping", "poultry", "honey", "supplies" >>,
        title_patterns |-> << >> ],
      [ name |-> "careers", tier |-> 1,
        intelligence |->
          "Hiring activity, growth indicators, business expansion signals",
        url_patterns |-> << "/career", "/job", "/hiring" >>,
        title_patterns |-> << >> ],
      [ name |-> "about", tier |-> 1,
        intelligence |->
          "Mission, history, size, business model, values",
        url_patterns |-> << "/about", "/company" >>,
        title_patterns |-> << >> ],
      [ name |-> "services", tier |-> 1,
        intelligence |->
          "Revenue streams, core competencies, competitive positioning",
        url_patterns |-> << "/service", "/solution" >>,
        title_patterns |-> << >> ]
   >>

\* advanced_sitemap_parser.AdvancedSitemapParser.classify_page_for_bi
AdvancedRules ==
   <<
      [ name |-> "careers", tier |-> 1,
        intelligence |->
          "Hiring activity, growth indicators, business expansion signals",
        url_patterns |-> << "/career", "/job", "/hiring", "/employment",
            "/work-with-us", "/join-us" >>,
        title_patterns |-> << >> ],
      [ name |-> "services", tier |-> 1,
        intelligence |->
          "Revenue streams, core competencies, competitive positioning",
        url_patterns |-> << "/service", "/solution", "/offering",
            "/capability", "/what-we-do" >>,
        title_patterns |-> << >> ],
      [ name |-> "products", tier |-> 1,
        intelligence |->
          "Product portfolio, market focus, innovation pipeline",
        url_patterns |-> << "/product", "/shop", "/catalog", "/store",
            "/brands" >>,
        title_patterns |-> << >> ],
      [ name |-> "about", tier |-> 1,
        intelligence |->
          "Mission, history, size, business model, values",
        url_patterns |-> << "/about", "/company", "/who-we-are", "/overview",
            "/our-story" >>,
        title_patterns |-> << >> ],
      [ name |-> "team", tier |-> 2,
        intelligence |->
          "Leadership depth, expertise, company culture, decision makers",
        url_patterns |-> << "/team", "/leadership", "/people", "/staff",
            "/management", "/executives" >>,
        title_patterns |-> << >> ],
      [ name |-> "news", tier |-> 2,
        intelligence |->
          "Market activity, thought leadership, PR activity, company momentum",
        url_patterns |-> << "/news", "/blog", "/insight", "/article",
            "/press", "/media" >>,
        title_patterns |-> << >> ],
      [ name |-> "locations", tier |-> 3,
        intelligence |->
          "Market reach, geographic expansion, operational footprint",
        url_patterns |-> << "/location", "/office", "/facility", "/branch",
            "/store" >>,
        title_patterns |-> << >> ],
      [ name |-> "contact", tier |-> 3,
        intelligence |->
          "Geographic presence, contact channels, business accessibility",
        url_patterns |-> << "/contact", "/reach-us", "/get-in-touch" >>,
        title_patterns |-> << >> ]
   >>

\* Mutation of ScanRules: the URL patterns of all rules are tried before any
\* title pattern
ScanRulesUrlsFirst(rules, i, url_lower, title_lower, default) ==
    LET Hit(j) == [ bi_classification |-> rules[j].name,
                    business_value_tier |-> rules[j].tier,
                    intelligence_value |-> rules[j].intelligence ]
        byUrl == { j \in i..Len(rules) : AnyIn(rules[j].url_patterns, url_lower) }
        byTitle == { j \in i..Len(rules) : AnyIn(rules[j].title_patterns, title_lower) }
        First(S) == CHOOSE j \in S : \A k \in S : j <= k
    IN  IF byUrl # {} THEN Hit(First(byUrl))
        ELSE IF byTitle # {} THEN Hit(First(byTitle))
        ELSE default

\* Result of the first rule of `rules`, scanned from position i, one of whose
\* URL patterns occurs in url_lower or, failing that, one of whose title
\* patterns occurs in title_lower; `default` when no rule matches.
RECURSIVE ScanRules(_, _, _, _, _)
ScanRules(rules, i, url_lower, title_lower, default) ==
    IF i > Len(rules) THEN default
    ELSE IF AnyIn(rules[i].url_patterns, url_lower)
         THEN [ bi_classification |-> rules[i].name,
                business_value_tier |-> rules[i].tier,
                intelligence_value |-> rules[i].intelligence ]
         ELSE IF AnyIn(rules[i].title_patterns, title_lower)
              THEN [ bi_classification |-> rules[i].name,
                     business_value_tier |-> rules[i].tier,
                     intelligence_value |-> rules[i].intelligence ]
              ELSE ScanRules(rules, i + 1, url_lower, title_lower, default)

\* Mutation of Unclassified: the default tier is 0
UnclassifiedTierZero ==
    [ bi_classification |-> "unclassified",
      business_value_tier |-> 0,
      intelligence_value |-> "Unknown business intelligence value" ]

\* The no-match result of every classifier variant
Unclassified ==
    [ bi_classification |-> "unclassified",
      business_value_tier |-> 7,
      intelligence_value |-> "Unknown business intelligence value" ]

\* Mutation of classify_page_bi: the last matching rule of the table decides
classify_page_bi_LastMatch(url, title) ==
    LET M == { i \in 1..Len(BI_TAXONOMY) :
                  \/ AnyIn(BI_TAXONOMY[i].url_patterns, Lower(url))
                  \/ AnyIn(BI_TAXONOMY[i].title_patterns, Lower(title)) }
        last == CHOOSE i \in M : \A k \in M : k <= i
    IN  IF M = {} THEN Unclassified
        ELSE [ bi_classification |-> BI_TAXONOMY[last].name,
               business_value_tier |-> BI_TAXONOMY[last].tier,
               intelligence_value |-> BI_TAXONOMY[last].intelligence ]

\* bi_page_classifier.classify_page_bi(url, title)
classify_page_bi(url, title) ==
    ScanRules(BI_TAXONOMY, 1, Lower(url), Lower(title), Unclassified)

\* business_intelligence_page_taxonomy.BI_PAGE_TAXONOMY, in dict (insertion)
\* order: priority is the tier, business_value the intelligence text
BI_PAGE_TAXONOMY ==
   <<
      [ name |-> "services", tier |-> 1,
        intelligence |-> "Very High",
        url_patterns |-> << "/services", "/solutions", "/offerings",
            "/capabilities", "/expertise" >>,
        title_patterns |-> << "services", "solutions", "what we do",
            "capabilities", "offerings" >> ],
      [ name |-> "products", tier |-> 1,
        intelligence |-> "Very High",
        url_patterns |-> << "/products", "/catalog", "/portfolio",
            "/brands" >>,
        title_patterns |-> << "products", "catalog", "portfolio", "brands",
            "offerings" >> ],
      [ name |-> "about", tier |-> 1,
        intelligence |-> "Very High",
        url_patterns |-> << "/about", "/company", "/who-we-are",
            "/overview" >>,
        title_patterns |-> << "about", "company", "who we are", "overview",
            "our story" >> ],
      [ name |-> "team", tier |-> 2,
        intelligence |-> "High",
        url_patterns |-> << "/team", "/leadership", "/people", "/staff",
            "/management", "/executives", "/board" >>,
        title_patterns |-> << "team", "leadership", "people", "staff",
            "management", "executives", "our team", "meet the team",
            "board of directors" >> ],
      [ name |-> "news", tier |-> 2,
        intelligence |-> "High",
        url_patterns |-> << "/news", "/blog", "/insights", "/updates",
            "/press", "/media", "/articles" >>,
        title_patterns |-> << "news", "blog", "insights", "updates",
            "press releases", "media", "articles", "thought leadership" >> ],
      [ name |-> "locations", tier |-> 3,
        intelligence |-> "Medium-High",
        url_patterns |-> << "/locations", "/offices", "/facilities",
            "/branches", "/stores" >>,
        title_patterns |-> << "locations", "offices", "facilities",
            "branches", "stores", "find us" >> ],
      [ name |-> "careers", tier |-> 3,
        intelligence |-> "Medium-High",
        url_patterns |-> << "/careers", "/jobs", "/employment",
            "/opportunities", "/hiring" >>,
        title_patterns |-> << "careers", "jobs", "employment",
            "opportunities", "join us", "work with us" >> ],
      [ name |-> "contact", tier |-> 3,
        intelligence |-> "Medium",
        url_patterns |-> << "/contact", "/reach-us", "/get-in-touch" >>,
        title_patterns |-> << "contact", "reach us", "get in touch",
            "contact us" >> ],
      [ name |-> "case-studies", tier |-> 4,
        intelligence |-> "Medium",
        url_patterns |-> << "/case-studies", "/portfolio", "/work",
            "/projects", "/clients", "/success-stories" >>,
        title_patterns |-> << "case studies", "portfolio", "our work",
            "projects", "success stories", "client stories" >> ],
      [ name |-> "industries", tier |-> 4,
        intelligence |-> "Medium",
        url_patterns |-> << "/industries", "/sectors", "/markets",
            "/verticals" >>,
        title_patterns |-> << "industries", "sectors", "markets",
            "verticals", "who we serve" >> ],
      [ name |-> "investors", tier |-> 5,
        intelligence |-> "Low-Medium",
        url_patterns |-> << "/investors", "/investor-relations",
            "/financials", "/sec-filings" >>,
        title_patterns |-> << "investors", "investor relations",
            "financials", "sec filings" >> ],
      [ name |-> "legal", tier |-> 6,
        intelligence |-> "Low",
        url_patterns |-> << "/terms", "/privacy", "/legal", "/compliance",
            "/gdpr", "/ccpa" >>,
        title_patterns |-> << "terms", "privacy", "legal", "compliance",
            "gdpr", "ccpa" >> ]
   >>

\* business_intelligence_page_taxonomy.classify_page_by_business_value: the
\* no-match result keeps the classification the caller passes
KeepsCurrent(current_classification) ==
    [ bi_classification |-> current_classification,
      business_value_tier |-> 7,
      intelligence_value |-> "Unknown" ]

\* classify_page_by_business_value(url, title='', current_classification='other')
classify_page_by_business_value(url, title, current_classification) ==
    ScanRules(BI_PAGE_TAXONOMY, 1, Lower(url), Lower(title),
              KeepsCurrent(current_classification))

\* phase3_scaled_processor.get_enhanced_bi_classification(url)
get_enhanced_bi_classification(url) ==
    ScanRules(EnhancedRules, 1, Lower(url), "", Unclassified)

\* phase3_final.classify_page_bi(url)
final_classify_page_bi(url) ==
    ScanRules(FinalRules, 1, Lower(url), "", Unclassified)

\* phase2_pilot_fix.classify_business_page(url)
classify_business_page(url) ==
    ScanRules(PilotRules, 1, Lower(url), "", Unclassified)

\* phase3_simple.classify_business_page: the if/elif chain
SimpleRules ==
   <<
      [ name |-> "careers", tier |-> 1,
        intelligence |->
          "Hiring activity, growth indicators, business expansion signals",
        url_patterns |-> << "/career", "/job", "/hiring" >>,
        title_patterns |-> << >> ],
      [ name |-> "products", tier |-> 1,
        intelligence |->
          "Product portfolio, market focus, innovation pipeline",
        url_patterns |-> << "/product", "/shop", "/catalog" >>,
        title_patterns |-> << >> ],
      [ name |-> "services", tier |-> 1,
        intelligence |->
          "Revenue streams, core competencies, competitive positioning",
        url_patterns |-> << "/service", "/solution" >>,
        title_patterns |-> << >> ],
      [ name |-> "about", tier |-> 1,
        intelligence |->
          "Mission, history, size, business model, values",
        url_patterns |-> << "/about", "/company" >>,
        title_patterns |-> << >> ],
      [ name |-> "team", tier |-> 2,
        intelligence |->
          "Leadership depth, expertise, company culture, decision makers",
        url_patterns |-> << "/team", "/leadership" >>,
        title_patterns |-> << >> ],
      [ name |-> "news", tier |-> 2,
        intelligence |->
          "Market activity, thought leadership, PR activity, company momentum",
        url_patterns |-> << "/news", "/blog" >>,
        title_patterns |-> << >> ]
   >>

\* phase3_simple.classify_business_page(url)
simple_classify_business_page(url) ==
    ScanRules(SimpleRules, 1, Lower(url), "", Unclassified)

\* advanced_sitemap_parser.AdvancedSitemapParser.classify_page_for_bi(url)
classify_page_for_bi(url) ==
    ScanRules(AdvancedRules, 1, Lower(url), "", Unclassified)

\* database_sitemap_fixer.classify_real_page: the if/elif chain over page types
RealPageRules ==
   << [ name |-> "careers",  url_patterns |-> << "/career", "/job", "/hiring" >> ],
      [ name |-> "services", url_patterns |-> << "/service", "/solution" >> ],
      [ name |-> "products", url_patterns |-> << "/product", "/shop", "/catalog" >> ],
      [ name |-> "about",    url_patterns |-> << "/about", "/company" >> ],
      [ name |-> "news",     url_patterns |-> << "/news", "/blog", "/press" >> ],
      [ name |-> "team",     url_patterns |-> << "/team", "/leadership" >> ],
      [ name |-> "contact",  url_patterns |-> << "/contact" >> ] >>

RECURSIVE ScanPageType(_, _)
ScanPageType(i, url_lower) ==
    IF i > Len(RealPageRules) THEN "other"
    ELSE IF AnyIn(RealPageRules[i].url_patterns, url_lower)
         THEN RealPageRules[i].name
         ELSE ScanPageType(i + 1, url_lower)

\* database_sitemap_fixer.classify_real_page(url)
classify_real_page(url) == ScanPageType(1, Lower(url))

\* database_sitemap_fixer.get_bi_classification: bi_map without 'other'
bi_map ==
   << [ name |-> "careers", tier |-> 1, intelligence |->
          "Hiring activity, growth indicators, business expansion signals" ],
      [ name |-> "services", tier |-> 1, intelligence |->
          "Revenue streams, core competencies, competitive positioning" ],
      [ name |-> "products", tier |-> 1, intelligence |->
          "Product portfolio, market focus, innovation pipeline" ],
      [ name |-> "about", tier |-> 1, intelligence |->
          "Mission, history, size, business model, values" ],
      [ name |-> "team", tier |-> 2, intelligence |->
          "Leadership depth, expertise, company culture, decision makers" ],
      [ name |-> "news", tier |-> 2, intelligence |->
          "Market activity, thought leadership, PR activity, company momentum" ],
      [ name |-> "contact", tier |-> 3, intelligence |->
          "Geographic presence, contact channels, business accessibility" ] >>

\* database_sitemap_fixer.get_bi_classification(page_type):
\* bi_map.get(page_type, bi_map['other'])
get_bi_classification(page_type) ==
    IF \E i \in 1..Len(bi_map) : bi_map[i].name = page_type
    THEN LET i == CHOOSE j \in 1..Len(bi_map) : bi_map[j].name = page_type
         IN  [ bi_classification |-> bi_map[i].name,
               business_value_tier |-> bi_map[i].tier,
               intelligence_value |-> bi_map[i].intelligence ]
    ELSE Unclassified

ClassifierVariants ==
    {"taxonomy", "value", "scaled", "final", "pilot", "advanced", "fixer"}

\* The classifiers that take a title
TitledClassifiers == {"taxonomy", "value"}

\* The classifier of each script
Classify(v, url, title) ==
    CASE v = "taxonomy" -> classify_page_bi(url, title)
      [] v = "value"    -> classify_page_by_business_value(url, title, "other")
      [] v = "scaled"   -> get_enhanced_bi_classification(url)
      [] v = "final"    -> final_classify_page_bi(url)
      [] v = "pilot"    -> classify_business_page(url)
      [] v = "advanced" -> classify_page_for_bi(url)
      [] v = "fixer"    -> get_bi_classification(classify_real_page(url))
      [] v = "simple"   -> simple_classify_business_page(url)

\* page_type stored with a classification: the category, 'other' by default
PageTypeOf(c) ==
    IF c.bi_classification = "unclassified" THEN "other"
    ELSE c.bi_classification

(***************************************************************************)
(* PageRecordExtractor                                                     *)
(*                                                                         *)
(* A sitemap document is [ok, urls]: ok is FALSE when ET.fromstring raises *)
(* ParseError, urls lists the <url> elements in document order, each with  *)
(* has_loc (a <loc> child exists) and text (its text, "" when empty).      *)
(***************************************************************************)

IsHttp(url) == StartsWith(url, "http://") \/ StartsWith(url, "https://")

\* phase3_scaled_processor.parse_sitemap_for_real_pages: the filter
KeepScaled(url, domain) ==
    /\ Contains(url, domain)
    /\ ~Contains(Lower(url), "sitemap")
    /\ ~Contains(Lower(url), ".xml")
    /\ ~EndsWith(url, ".xml")
    /\ IsHttp(url)

\* phase3_final.parse_sitemap_direct: the filter
KeepFinal(url, domain) ==
    /\ Contains(url, domain)
    /\ ~Contains(Lower(url), "sitemap")
    /\ ~Contains(Lower(url), ".xml")
    /\ IsHttp(url)

\* phase2_pilot_fix.parse_direct_sitemap: the filter
KeepPilot(url, domain) ==
    /\ Contains(url, domain)
    /\ ~Contains(Lower(url), "sitemap")
    /\ ~Contains(Lower(url), ".xml")

\* advanced_sitemap_parser.extract_real_pages_from_xml: the filter
KeepAdvanced(url, domain) ==
    /\ Contains(url, domain)
    /\ ~Contains(Lower(url), "sitemap")
    /\ ~Contains(Lower(url), ".xml")
    /\ IsHttp(url)

\* database_sitemap_fixer.extract_urls_from_sitemap_xml: the filter
KeepFixer(url, domain) ==
    /\ Contains(url, domain)
    /\ ~Contains(Lower(url), "sitemap")

\* phase3_simple.extract_pages_from_sitemap: the filter
KeepSimple(url, domain) ==
    /\ Contains(url, domain)
    /\ ~Contains(Lower(url), "sitemap")
    /\ ~Contains(Lower(url), ".xml")

ExtractorVariants == {"scaled", "final", "pilot", "advanced", "fixer"}

\* Mutation of Keep: every URL of the domain is kept, addresses of sitemap
\* files included
KeepAnyOnDomain(v, url, domain) == Contains(url, domain)

\* The filter of each script
Keep(v, url, domain) ==
    CASE v = "scaled"   -> KeepScaled(url, domain)
      [] v = "final"    -> KeepFinal(url, domain)
      [] v = "pilot"    -> KeepPilot(url, domain)
      [] v = "advanced" -> KeepAdvanced(url, domain)
      [] v = "fixer"    -> KeepFixer(url, domain)
      [] v = "simple"   -> KeepSimple(url, domain)

\* url = loc_elem.text.strip(); the fixer uses loc_elem.text as it is
LocUrl(v, text) == IF v = "fixer" THEN text ELSE Strip(text)

\* The page dict appended for a kept URL
MakePage(v, url) ==
    LET c == Classify(v, url, "")
    IN  [ url |-> url,
          page_type |-> PageTypeOf(c),
          bi_classification |-> c.bi_classification,
          business_value_tier |-> c.business_value_tier,
          intelligence_value |-> c.intelligence_value ]

\* The loop over url_elements, from element i on: the elements that pass
\* the filter, in document order, each made into a page
ExtractFrom(v, urls, i, domain) ==
    LET Kept(e) == e.has_loc /\ e.text # "" /\ Keep(v, LocUrl(v, e.text), domain)
        kept == SelectSeq(SubSeq(urls, i, Len(urls)), Kept)
    IN  [ k \in 1..Len(kept) |-> MakePage(v, LocUrl(v, kept[k].text)) ]

\* parse_sitemap_for_real_pages / parse_sitemap_direct / parse_direct_sitemap /
\* extract_real_pages_from_xml / extract_urls_from_sitemap_xml (xml_content, domain)
ExtractPages(v, doc, domain) ==
    IF ~doc.ok THEN << >>
    ELSE ExtractFrom(v, doc.urls, 1, domain)

(***************************************************************************)
(* ReconciliationEngine: fix_company_with_real_pages (scaled),             *)
(* fix_company_pages (final), fix_company_sitemap (pilot) and the loop     *)
(* body of fix_sitemap_database (fixer).                                   *)
(*                                                                         *)
(* No script opens a transaction: every conn.execute / fetchval is its own *)
(* committed statement, and every await is a point where other coroutines  *)
(* and other database clients run.                                         *)
(***************************************************************************)

FixVariants == {"scaled", "final", "pilot", "fixer"}

\* `if len(real_pages) < 5` (scaled), `< 5` (final), `< 10` (pilot);
\* the fixer repairs only `if len(real_pages) > 20`
MinYieldScaled == 5
MinYieldFinal == 5
MinYieldPilot == 10
FixerSubstantial == 20

\* real_pages[:300] (scaled), [:200] (final), [:200] (pilot), [:100] (fixer)
MaxInsertScaled == 300
MaxInsertFinal == 200
MaxInsertPilot == 200
MaxInsertFixer == 100

\* Mutation of EnoughPages: the guard compares with `<=` one below the threshold
EnoughPagesOffByOne(v, n) == n >= MinYieldScaled - 1

\* The minimum-yield guard: TRUE when the reconciliation goes ahead
EnoughPages(v, n) ==
    CASE v = "scaled" -> ~(n < MinYieldScaled)
      [] v = "final"  -> ~(n < MinYieldFinal)
      [] v = "pilot"  -> ~(n < MinYieldPilot)
      [] v = "fixer"  -> n > FixerSubstantial

MaxInsert(v) ==
    CASE v = "scaled" -> MaxInsertScaled
      [] v = "final"  -> MaxInsertFinal
      [] v = "pilot"  -> MaxInsertPilot
      [] v = "fixer"  -> MaxInsertFixer

Min(a, b) == IF a < b THEN a ELSE b

\* Python: pages[:n]
Take(pages, n) == SubSeq(pages, 1, Min(Len(pages), n))

\* Mutation of pages_to_insert: the slice is forgotten
pages_to_insert_unbounded(v, pages) == pages

\* pages_to_insert / real_pages_limited / pilot_pages / real_pages_sample
pages_to_insert(v, pages) == Take(pages, MaxInsert(v))

\* The row INSERT INTO website_pages stores for a page, with its serial id
RowOf(id, page) ==
    [ id |-> id,
      url |-> page.url,
      page_type |-> page.page_type,
      bi_classification |-> page.bi_classification,
      business_value_tier |-> page.business_value_tier,
      intelligence_value |-> page.intelligence_value ]

\* The INSERT raises for this page (constraint violation, oversized field)
InsertRaises(page) == page.url \in storeRejects

\* Exceptions inside the try of scaled / final / pilot return False; the
\* fixer has no handler around its statements, nor has the pilot before its try
OnStoreError(v, inTry) ==
    IF v = "fixer" \/ ~inTry THEN "raised" ELSE "False"

(***************************************************************************)
(* Environment of a reconciliation: the store's content, the pages the     *)
(* discovery of a company returns, and the rows the store refuses.         *)
(***************************************************************************)

Structures == {1, 2}

\* Largest number of pages a discovery returns in the model
MaxSite == 301

\* Numbers of pages a discovery may return: around every threshold and limit
CandLens == {0, 4, 5, 6, 10, 21, 22, 101, 201, 301}

\* The same, for the specifications that interleave a reader or a second run
SmallLens == {0, 4, 5, 6, 10, 21, 22}

SitePaths == << "/careers/job-", "/products/item-", "/legal/terms-", "/page-" >>

\* The sitemap of the company lists page 2 a second time at position 4
PageNo(i) == IF i = 4 THEN 2 ELSE i

SiteUrl(i) ==
    "https://example.com" \o SitePaths[((PageNo(i) - 1) % 4) + 1]
                          \o ToString(PageNo(i))

\* The classified pages discovery returns, in document order, per script
Site == [ v \in FixVariants |-> [ i \in 1..MaxSite |-> MakePage(v, SiteUrl(i)) ] ]

\* The store refuses at most MaxRejected URLs, among the first RejectSpan pages
MaxRejected == 1
RejectSpan == 6
RejectChoices ==
    { R \in SUBSET { SiteUrl(i) : i \in 1..RejectSpan } : Cardinality(R) <= MaxRejected }

\* Rows an earlier crawl stored for structure 1: sitemap files, not pages
StaleRows ==
    << RowOf(1, MakePage("scaled", "https://example.com/sitemap.xml")),
       RowOf(2, MakePage("scaled", "https://example.com/post-sitemap.xml")),
       RowOf(3, MakePage("scaled", "https://example.com/page-sitemap.xml")) >>

\* Rows of structure 2, a company the batch does not select
OtherRows ==
    << RowOf(4, MakePage("scaled", "https://other.org/about")),
       RowOf(5, MakePage("scaled", "https://other.org/contact")) >>

\* The page of a stored row: the row without its serial id
PageOf(row) ==
    [ url |-> row.url,
      page_type |-> row.page_type,
      bi_classification |-> row.bi_classification,
      business_value_tier |-> row.business_value_tier,
      intelligence_value |-> row.intelligence_value ]

Content(rows) == [ i \in 1..Len(rows) |-> PageOf(rows[i]) ]

NoStmts == [ delete |-> 0, insert |-> 0, update |-> 0 ]
NoPrev == [ ran |-> FALSE, cands |-> << >>, result |-> "none", failed |-> "none",
            content |-> << >>, total |-> 0 ]
NotObserved == [ seen |-> FALSE, sid |-> 0, at |-> "idle", content |-> << >> ]
ExIdle == [ pc |-> "off", variant |-> "scaled", doc |-> [ ok |-> TRUE, urls |-> << >> ],
            domain |-> "", out |-> << >> ]
ClIdle == [ pc |-> "off", variant |-> "taxonomy", url |-> "", title |-> "",
            out |-> Unclassified ]
WalkIdle == [ pc |-> "off", variant |-> "scaled", site |-> "none", caller |-> 0,
              ci |-> 0, entry |-> "", subs |-> << >>, si |-> 0,
              all_pages |-> << >>, real_pages |-> << >>, fetched |-> << >>,
              faults |-> 0 ]
BatchIdle == [ pc |-> "off", script |-> "final", companies |-> << >>, i |-> 0,
               step |-> "none", outcome |-> << >>,
               stats |-> [ processed |-> 0, successful |-> 0, failed |-> 0 ],
               error |-> "none" ]

InitFixWith(scripts, refusals) ==
    /\ variant \in scripts
    /\ website_pages = [ s \in Structures |-> IF s = 1 THEN StaleRows ELSE OtherRows ]
    /\ total_pages = [ s \in Structures |-> IF s = 1 THEN Len(StaleRows) ELSE Len(OtherRows) ]
    /\ nextId = Len(StaleRows) + Len(OtherRows) + 1
    /\ storeRejects \in refusals
    /\ problem_companies = {1}
    /\ pc = [ s \in Structures |-> "idle" ]
    /\ real_pages = [ s \in Structures |-> << >> ]
    /\ idx = [ s \in Structures |-> 0 ]
    /\ inserted = [ s \in Structures |-> 0 ]
    /\ result = [ s \in Structures |-> "none" ]
    /\ runs = [ s \in Structures |-> 0 ]
    /\ pre = [ s \in Structures |->
                 [ rows |-> website_pages[s], total |-> total_pages[s] ] ]
    /\ prev = [ s \in Structures |-> NoPrev ]
    /\ stmts = [ s \in Structures |-> NoStmts ]
    /\ rowFailed = [ s \in Structures |-> {} ]
    /\ failed = [ s \in Structures |-> "none" ]
    /\ observed = NotObserved

\* The other scripts are not running
OthersIdle ==
    /\ walk = WalkIdle
    /\ taxonomy = BI_TAXONOMY
    /\ calls = << >>
    /\ batch = BatchIdle

Init ==
    /\ InitFixWith(FixVariants, RejectChoices)
    /\ ex = ExIdle
    /\ cl = ClIdle
    /\ OthersIdle

moreVars == << walk, taxonomy, calls, batch >>
checkVars == << ex, cl, moreVars >>
envVars == << variant, storeRejects, problem_companies >>

\* Leave the function f alone except at s
Finish(s, r) ==
    /\ result' = [ result EXCEPT ![s] = r ]
    /\ pc' = [ pc EXCEPT ![s] = "done" ]

\* The coroutine of a selected company starts: fix_company_*(pool, company)
Begin(s) ==
    /\ s \in problem_companies
    /\ pc[s] = "idle"
    /\ pc' = [ pc EXCEPT ![s] = IF variant = "final" THEN "extract" ELSE "count" ]
    /\ runs' = [ runs EXCEPT ![s] = @ + 1 ]
    /\ pre' = [ pre EXCEPT ![s] = [ rows |-> website_pages[s],
                                    total |-> total_pages[s] ] ]
    /\ stmts' = [ stmts EXCEPT ![s] = NoStmts ]
    /\ rowFailed' = [ rowFailed EXCEPT ![s] = {} ]
    /\ failed' = [ failed EXCEPT ![s] = "none" ]
    /\ real_pages' = [ real_pages EXCEPT ![s] = << >> ]
    /\ idx' = [ idx EXCEPT ![s] = 0 ]
    /\ inserted' = [ inserted EXCEPT ![s] = 0 ]
    /\ result' = [ result EXCEPT ![s] = "none" ]
    /\ UNCHANGED << storeVars, envVars, prev, observed, checkVars >>

\* SELECT COUNT(*) / SELECT id, url of the current pages (scaled, pilot, fixer)
CountPages(s) ==
    /\ pc[s] = "count"
    /\ pc' = [ pc EXCEPT ![s] = "extract" ]
    /\ UNCHANGED << storeVars, envVars, real_pages, idx, inserted, result, runs,
                    pre, prev, stmts, rowFailed, observed, checkVars, failed >>

\* The count query raises: inside the try of scaled, outside any try otherwise
CountFails(s) ==
    /\ pc[s] = "count"
    /\ failed' = [ failed EXCEPT ![s] = "count" ]
    /\ Finish(s, OnStoreError(variant, variant = "scaled"))
    /\ UNCHANGED << storeVars, envVars, real_pages, idx, inserted, runs,
                    pre, prev, stmts, rowFailed, observed, checkVars >>

\* real_pages = extract_*(domain), then the minimum-yield guard
Discover(s, lens) ==
    /\ pc[s] = "extract"
    /\ \E n \in lens :
          /\ real_pages' = [ real_pages EXCEPT ![s] = Take(Site[variant], n) ]
          /\ IF EnoughPages(variant, n)
             THEN /\ pc' = [ pc EXCEPT ![s] = "delete" ]
                  /\ UNCHANGED result
             ELSE Finish(s, "False")
    /\ UNCHANGED << storeVars, envVars, idx, inserted, runs, pre, prev, stmts,
                    rowFailed, observed, checkVars, failed >>

\* Mutation of DeletePages: the DELETE matches no row
DeletePagesKeepsRows(s) ==
    /\ pc[s] = "delete"
    /\ stmts' = [ stmts EXCEPT ![s].delete = @ + 1 ]
    /\ idx' = [ idx EXCEPT ![s] = 1 ]
    /\ inserted' = [ inserted EXCEPT ![s] = 0 ]
    /\ pc' = [ pc EXCEPT ![s] = "insert" ]
    /\ UNCHANGED << storeVars, envVars, real_pages, result, runs, pre,
                    prev, rowFailed, observed, checkVars, failed >>

\* DELETE FROM website_pages WHERE website_structure_id = $1
DeletePages(s) ==
    /\ pc[s] = "delete"
    /\ website_pages' = [ website_pages EXCEPT ![s] = << >> ]
    /\ stmts' = [ stmts EXCEPT ![s].delete = @ + 1 ]
    /\ idx' = [ idx EXCEPT ![s] = 1 ]
    /\ inserted' = [ inserted EXCEPT ![s] = 0 ]
    /\ pc' = [ pc EXCEPT ![s] = "insert" ]
    /\ UNCHANGED << total_pages, nextId, envVars, real_pages, result, runs, pre,
                    prev, rowFailed, observed, checkVars, failed >>

\* The DELETE raises
DeleteFails(s) ==
    /\ pc[s] = "delete"
    /\ failed' = [ failed EXCEPT ![s] = "delete" ]
    /\ Finish(s, OnStoreError(variant, TRUE))
    /\ UNCHANGED << storeVars, envVars, real_pages, idx, inserted, runs,
                    pre, prev, stmts, rowFailed, observed, checkVars >>

\* pc after the statement for candidate idx: the loop goes on or ends
AfterInsert(s) ==
    IF idx[s] + 1 > Len(pages_to_insert(variant, real_pages[s]))
    THEN "update" ELSE "insert"

\* One pass of the insert loop whose INSERT succeeds; the fixer keeps no counter
InsertPage(s) ==
    /\ pc[s] = "insert"
    /\ LET page == pages_to_insert(variant, real_pages[s])[idx[s]]
       IN  /\ ~InsertRaises(page)
           /\ website_pages' = [ website_pages EXCEPT
                                   ![s] = Append(@, RowOf(nextId, page)) ]
           /\ nextId' = nextId + 1
    /\ inserted' = [ inserted EXCEPT ![s] = IF variant = "fixer" THEN @ ELSE @ + 1 ]
    /\ stmts' = [ stmts EXCEPT ![s].insert = @ + 1 ]
    /\ pc' = [ pc EXCEPT ![s] = AfterInsert(s) ]
    /\ idx' = [ idx EXCEPT ![s] = @ + 1 ]
    /\ UNCHANGED << total_pages, envVars, real_pages, result, runs, pre, prev,
                    rowFailed, observed, checkVars, failed >>

\* Mutation of OnRowError: the per-row handler is missing, the outer one
\* returns False
OnRowErrorAborts(s) == [ pc |-> "done", result |-> "False" ]

\* What a raising INSERT leads to: `except: continue`, the loop goes on
OnRowError(s) == [ pc |-> AfterInsert(s), result |-> result[s] ]

\* One pass of the insert loop whose INSERT raises
InsertRejected(s) ==
    /\ pc[s] = "insert"
    /\ InsertRaises(pages_to_insert(variant, real_pages[s])[idx[s]])
    /\ rowFailed' = [ rowFailed EXCEPT ![s] = @ \cup { idx[s] } ]
    /\ stmts' = [ stmts EXCEPT ![s].insert = @ + 1 ]
    /\ pc' = [ pc EXCEPT ![s] = OnRowError(s).pc ]
    /\ result' = [ result EXCEPT ![s] = OnRowError(s).result ]
    /\ idx' = [ idx EXCEPT ![s] = @ + 1 ]
    /\ UNCHANGED << storeVars, envVars, real_pages, inserted, runs, pre,
                    prev, observed, checkVars, failed >>

\* The value written to total_pages: `inserted`; the fixer writes
\* len(real_pages_sample)
CountWritten(s) ==
    IF variant = "fixer"
    THEN Len(pages_to_insert(variant, real_pages[s]))
    ELSE inserted[s]

\* Mutation of UpdateStructure: the UPDATE has no WHERE id = $2 and writes
\* the count to every structure
UpdateStructureEveryRow(s) ==
    /\ pc[s] = "update"
    /\ total_pages' = [ t \in Structures |-> CountWritten(s) ]
    /\ stmts' = [ stmts EXCEPT ![s].update = @ + 1 ]
    /\ IF variant = "pilot"
       THEN /\ pc' = [ pc EXCEPT ![s] = "sample" ]
            /\ UNCHANGED result
       ELSE Finish(s, "True")
    /\ UNCHANGED << website_pages, nextId, envVars, real_pages, idx, inserted,
                    runs, pre, prev, rowFailed, observed, checkVars, failed >>

\* UPDATE website_structures SET total_pages = $1, updated_at = NOW()
UpdateStructure(s) ==
    /\ pc[s] = "update"
    /\ total_pages' = [ total_pages EXCEPT ![s] = CountWritten(s) ]
    /\ stmts' = [ stmts EXCEPT ![s].update = @ + 1 ]
    /\ IF variant = "pilot"
       THEN /\ pc' = [ pc EXCEPT ![s] = "sample" ]
            /\ UNCHANGED result
       ELSE Finish(s, "True")
    /\ UNCHANGED << website_pages, nextId, envVars, real_pages, idx, inserted,
                    runs, pre, prev, rowFailed, observed, checkVars, failed >>

\* The UPDATE raises
UpdateFails(s) ==
    /\ pc[s] = "update"
    /\ failed' = [ failed EXCEPT ![s] = "update" ]
    /\ Finish(s, OnStoreError(variant, TRUE))
    /\ UNCHANGED << storeVars, envVars, real_pages, idx, inserted, runs,
                    pre, prev, stmts, rowFailed, observed, checkVars >>

\* pilot: SELECT ... LIMIT 5 of the new rows, printed, then return True
SamplePages(s) ==
    /\ pc[s] = "sample"
    /\ Finish(s, "True")
    /\ UNCHANGED << storeVars, envVars, real_pages, idx, inserted, runs,
                    pre, prev, stmts, rowFailed, observed, checkVars, failed >>

\* pilot: the sample query raises inside the try: return False
SampleFails(s) ==
    /\ pc[s] = "sample"
    /\ failed' = [ failed EXCEPT ![s] = "sample" ]
    /\ Finish(s, OnStoreError(variant, TRUE))
    /\ UNCHANGED << storeVars, envVars, real_pages, idx, inserted, runs,
                    pre, prev, stmts, rowFailed, observed, checkVars >>

\* Another database client queries the pages of a structure:
\* SELECT ... FROM website_pages WHERE website_structure_id = $1
Read(s) ==
    /\ observed' = [ seen |-> TRUE, sid |-> s, at |-> pc[s],
                     content |-> Content(website_pages[s]) ]
    /\ UNCHANGED << storeVars, envVars, fixVars, checkVars >>

\* Largest number of reconciliations of one structure
MaxRuns == 2

\* The script is run again on a company it has already processed
Again(s) ==
    /\ pc[s] = "done"
    /\ runs[s] < MaxRuns
    /\ prev' = [ prev EXCEPT ![s] =
                   [ ran |-> TRUE, cands |-> real_pages[s], result |-> result[s],
                     failed |-> failed[s],
                     content |-> Content(website_pages[s]),
                     total |-> total_pages[s] ] ]
    /\ pc' = [ pc EXCEPT ![s] = "idle" ]
    /\ UNCHANGED << storeVars, envVars, real_pages, idx, inserted, result, runs,
                    pre, stmts, rowFailed, failed, observed, checkVars >>

FixStep(s, lens) ==
    \/ Begin(s)
    \/ CountPages(s)
    \/ CountFails(s)
    \/ Discover(s, lens)
    \/ DeletePages(s)
    \/ DeleteFails(s)
    \/ InsertPage(s)
    \/ InsertRejected(s)
    \/ UpdateStructure(s)
    \/ UpdateFails(s)
    \/ SamplePages(s)
    \/ SampleFails(s)

Next == \E s \in Structures : FixStep(s, CandLens)

Spec == Init /\ [][Next]_vars

\* A reader runs concurrently with the reconciliation
NextRead ==
    \E s \in Structures : FixStep(s, SmallLens) \/ Read(s)

SpecRead == Init /\ [][NextRead]_vars

\* The reconciliation of a company is run a second time
NextTwice ==
    \E s \in Structures : FixStep(s, SmallLens) \/ Again(s)

SpecTwice == Init /\ [][NextTwice]_vars

(***************************************************************************)
(* Properties of the ReconciliationEngine                                  *)
(***************************************************************************)

\* The candidates handed to the reconciliation of s, bounded to the maximum
\* insertion count of the running script
Bounded(s) ==
    SubSeq(real_pages[s], 1,
           IF Len(real_pages[s]) < MaxInsert(variant)
           THEN Len(real_pages[s]) ELSE MaxInsert(variant))

\* The first n bounded candidates without those the store refuses
AcceptedOf(s, n) ==
    LET Accepted(page) == page.url \notin storeRejects
    IN  SelectSeq(SubSeq(Bounded(s), 1, n), Accepted)

\* The complete post-reconciliation page set of s
ExpectedContent(s) == AcceptedOf(s, Len(Bounded(s)))

\* C1: a query of a company's pages issued after the DELETE of a running
\* reconciliation and before its count update returns either the complete
\* pre-reconciliation set or the complete post-reconciliation set.
C1_AtomicReads ==
    (observed.seen /\ observed.at \in {"insert", "update"}) =>
        \/ observed.content = Content(pre[observed.sid].rows)
        \/ observed.content = ExpectedContent(observed.sid)

\* C2: when discovery returns fewer than 5 candidates the run ends at the
\* guard: it executes no DELETE, INSERT or UPDATE, and the company's rows and
\* total page count are those it had when the run started.
C2_MinYieldGuard ==
    \A s \in Structures :
        (pc[s] \notin {"idle", "count", "extract"}
            /\ Len(real_pages[s]) < MinYieldScaled) =>
            /\ pc[s] = "done"
            /\ stmts[s] = NoStmts
            /\ website_pages[s] = pre[s].rows
            /\ total_pages[s] = pre[s].total

\* A run was skipped by the guard with 4 candidates, one below the threshold
C2_Witness ==
    \E s \in Structures :
        /\ pc[s] = "done"
        /\ failed[s] = "none"
        /\ Len(real_pages[s]) = MinYieldScaled - 1
        /\ result[s] = "False"
        /\ pre[s].rows # << >>

\* C3: after a successful reconciliation the stored pages of the company are
\* exactly the bounded candidates minus those whose INSERT was refused, in
\* order, and no row stored before the reconciliation remains.
C3_ReplaceSemantics ==
    \A s \in Structures :
        (pc[s] = "done" /\ result[s] = "True") =>
            /\ Content(website_pages[s]) = ExpectedContent(s)
            /\ \A i \in 1..Len(website_pages[s]) :
                 \A j \in 1..Len(pre[s].rows) :
                    website_pages[s][i].id # pre[s].rows[j].id

\* A successful run replaced old rows with a truncated candidate list one of
\* whose rows the store refused
C3_Witness ==
    \E s \in Structures :
        /\ pc[s] = "done"
        /\ result[s] = "True"
        /\ Len(real_pages[s]) > MaxInsert(variant)
        /\ rowFailed[s] # {}
        /\ pre[s].rows # << >>
        /\ website_pages[s] # << >>

C5_RowFailureSkipped ==
    \A s \in Structures :
        rowFailed[s] # {} =>
            /\ pc[s] \in {"insert", "update", "sample", "done"}
            /\ Content(website_pages[s]) = AcceptedOf(s, stmts[s].insert)
            /\ pc[s] # "insert" => stmts[s].insert = Len(Bounded(s))
            /\ (pc[s] = "done" /\ failed[s] = "none") => result[s] = "True"

\* A run returned True although the INSERT of a candidate in the middle of
\* the list was refused
C5_Witness ==
    \E s \in Structures :
        /\ pc[s] = "done"
        /\ result[s] = "True"
        /\ \E i \in rowFailed[s] : 1 < i /\ i < Len(Bounded(s))
        /\ Len(website_pages[s]) = Len(Bounded(s)) - Cardinality(rowFailed[s])

\* C6: when two successive runs of a company get the same candidates and no
\* statement other than a refused INSERT raises in either, the stored pages
\* and the total page count after the second run are those after the first.
C6_Idempotent ==
    \A s \in Structures :
        (/\ pc[s] = "done"
         /\ prev[s].ran
         /\ prev[s].failed = "none"
         /\ failed[s] = "none"
         /\ prev[s].cands = real_pages[s]) =>
            /\ Content(website_pages[s]) = prev[s].content
            /\ total_pages[s] = prev[s].total
            /\ result[s] = prev[s].result

\* Two successive successful runs with the same candidates, one row refused
C6_Witness ==
    \E s \in Structures :
        /\ pc[s] = "done"
        /\ prev[s].ran
        /\ prev[s].result = "True"
        /\ result[s] = "True"
        /\ prev[s].cands = real_pages[s]
        /\ rowFailed[s] # {}
        /\ website_pages[s] # << >>

(***************************************************************************)
(* PageRecordExtractor applied to bounded sitemap documents                *)
(***************************************************************************)

\* Largest number of <url> elements of a document
MaxDocLen == 2

Domains == {"example.com"}

\* <loc> texts: pages of the domain, sitemap files, feeds, other hosts that
\* mention the domain, padded and relative URLs
LocTexts ==
    { "https://example.com/careers",
      " https://www.example.com/about \n",
      "https://example.com/post-sitemap.xml",
      "https://example.com/Sitemap-Careers",
      "https://example.com/feed.xml",
      "https://example.com/data.XML",
      "https://example.com/products.xml\n",
      "https://example.com/feed.xml?page=2",
      "https://evil.com/?ref=example.com",
      "https://notexample.com/products",
      "https://evil.com/jobs",
      "http://example.com/",
      "ftp://example.com/files",
      "/careers",
      "" }

UrlElems ==
    { [ has_loc |-> TRUE, text |-> t ] : t \in LocTexts }
        \cup { [ has_loc |-> FALSE, text |-> "" ] }

SeqsUpTo(S, n) == UNION { [ 1..k -> S ] : k \in 0..n }

\* Well-formed documents, and malformed ones (ET.ParseError)
Docs ==
    { [ ok |-> TRUE, urls |-> u ] : u \in SeqsUpTo(UrlElems, MaxDocLen) }
        \cup { [ ok |-> FALSE, urls |-> u ] : u \in SeqsUpTo(UrlElems, 1) }

InitExtract ==
    /\ InitFixWith({"scaled"}, {{}})
    /\ cl = ClIdle
    /\ OthersIdle
    /\ ex \in [ pc : {"ready"}, variant : ExtractorVariants, doc : Docs,
                domain : Domains, out : {<< >>} ]

\* pages = parse_*(xml_content, domain)
ExtractDoc ==
    /\ ex.pc = "ready"
    /\ ex' = [ ex EXCEPT !.pc = "done",
                         !.out = ExtractPages(ex.variant, ex.doc, ex.domain) ]
    /\ UNCHANGED << storeVars, envVars, fixVars, observed, cl, moreVars >>

NextExtract == ExtractDoc

SpecExtract == InitExtract /\ [][NextExtract]_vars

\* The host of an absolute http(s) URL: what follows the scheme up to the
\* first "/", "?" or "#"; "" for any other string
RECURSIVE UpToDelimiter(_, _)
UpToDelimiter(s, i) ==
    IF i > Len(s) \/ SubSeq(s, i, i) \in {"/", "?", "#"} THEN ""
    ELSE SubSeq(s, i, i) \o UpToDelimiter(s, i + 1)

HostOf(url) ==
    IF StartsWith(url, "https://") THEN UpToDelimiter(url, 9)
    ELSE IF StartsWith(url, "http://") THEN UpToDelimiter(url, 8)
    ELSE ""

\* C7: no entry yielded by the extractor has a URL that contains "sitemap"
\* or ends in ".xml".
C7_NoSitemapEntries ==
    ex.pc = "done" =>
        \A i \in 1..Len(ex.out) :
            /\ ~Contains(ex.out[i].url, "sitemap")
            /\ ~EndsWith(ex.out[i].url, ".xml")

\* C8: every entry yielded by the extractor has the domain under discovery,
\* or its www. variant, as the host of its URL.
C8_HostIsDomain ==
    ex.pc = "done" =>
        \A i \in 1..Len(ex.out) :
            HostOf(ex.out[i].url) \in { ex.domain, "www." \o ex.domain }

(***************************************************************************)
(* BIClassifier applied to bounded (URL, title) pairs                      *)
(***************************************************************************)

\* Largest number of path segments of a classified URL
MaxSegs == 2

Segments ==
    { "/careers", "/Jobs", "/about", "/services", "/products", "/portfolio",
      "/team", "/news", "/stores", "/contact", "/industries", "/legal",
      "/widgets" }

Paths == UNION { [ 1..k -> Segments ] : k \in 0..MaxSegs }

RECURSIVE Join(_, _)
Join(segs, i) == IF i > Len(segs) THEN "" ELSE segs[i] \o Join(segs, i + 1)

ClUrls == { "https://example.com" \o Join(p, 1) : p \in Paths }

ClTitles == { "", "Careers at Example", "About Us", "Our Portfolio", "Welcome" }

InitClassify ==
    /\ InitFixWith({"scaled"}, {{}})
    /\ ex = ExIdle
    /\ OthersIdle
    /\ cl \in { c \in [ pc : {"ready"}, variant : ClassifierVariants, url : ClUrls,
                       title : ClTitles, out : {Unclassified} ] :
                c.variant \notin TitledClassifiers => c.title = "" }

\* classify_page_bi(url, title) / get_enhanced_bi_classification(url) / ...
ClassifyPage ==
    /\ cl.pc = "ready"
    /\ cl' = [ cl EXCEPT !.pc = "done",
                         !.out = Classify(cl.variant, cl.url, cl.title) ]
    /\ UNCHANGED << storeVars, envVars, fixVars, observed, ex, moreVars >>

NextClassify == ClassifyPage

SpecClassify == InitClassify /\ [][NextClassify]_vars

\* The fixed taxonomy order of the categories
TaxonomyOrder ==
    << "careers", "services", "products", "about", "team", "news", "locations",
       "contact", "case-studies", "industries", "investors", "legal" >>

PositionOf(name) == CHOOSE k \in 1..Len(TaxonomyOrder) : TaxonomyOrder[k] = name

\* The rule table a classifier scans
RulesOf(v) ==
    CASE v = "taxonomy" -> BI_TAXONOMY
      [] v = "value"    -> BI_PAGE_TAXONOMY
      [] v = "scaled"   -> EnhancedRules
      [] v = "final"    -> FinalRules
      [] v = "pilot"    -> PilotRules
      [] v = "advanced" -> AdvancedRules
      [] v = "fixer"    -> RealPageRules

\* The categories one of whose URL patterns occurs in the lower-cased URL
UrlMatches(v, url) ==
    { RulesOf(v)[i].name : i \in { j \in 1..Len(RulesOf(v)) :
                                     AnyIn(RulesOf(v)[j].url_patterns, Lower(url)) } }

\* The classifiers C9 is stated of
C9Classifiers == {"taxonomy", "scaled", "pilot"}

\* C9: a URL (classified without a title) that matches the URL patterns of
\* two or more rules gets the category that comes first in the taxonomy order.
C9_FirstMatchPrecedence ==
    (/\ cl.pc = "done"
     /\ cl.variant \in C9Classifiers
     /\ cl.title = ""
     /\ Cardinality(UrlMatches(cl.variant, cl.url)) >= 2) =>
        \A name \in UrlMatches(cl.variant, cl.url) :
            PositionOf(cl.out.bi_classification) <= PositionOf(name)

\* C10: the tier of every classification is in 1..7, and the category
\* "unclassified" has tier 7.
C10_TierRange ==
    cl.pc = "done" =>
        /\ cl.out.business_value_tier \in 1..7
        /\ cl.out.bi_classification = "unclassified" =>
               cl.out.business_value_tier = 7

\* A URL and title no rule matches were classified, and so was a URL of the
\* last rule of the taxonomy
C10_Witness ==
    /\ cl.pc = "done"
    /\ cl.variant = "taxonomy"
    /\ cl.url = "https://example.com/widgets"
    /\ cl.title = "Welcome"
    /\ cl.out.bi_classification = "unclassified"

(***************************************************************************)
(* SitemapLocator and SitemapTreeWalker: extract_company_real_pages with    *)
(* parse_sitemap_index_for_real_pages (scaled), extract_real_pages with     *)
(* parse_sitemap_index (final), extract_real_pages_for_company (pilot),     *)
(* parse_company_real_pages (fixer), and find_main_sitemap with             *)
(* parse_company_real_pages (advanced).                                     *)
(*                                                                         *)
(* A document is [ok, kind, subs, urls]: ok is FALSE when ET.fromstring     *)
(* raises, kind is "index" when the text holds a <sitemapindex>, subs lists *)
(* its <sitemap> elements and urls its <url> elements, each [has_loc, text].*)
(***************************************************************************)

WalkVariants == {"scaled", "final", "pilot", "fixer", "advanced", "simple"}

\* sitemap_elements[:10] (scaled), sitemap_elements[:5] (final, pilot) and
\* sitemaps[:3] (simple)
MaxSubScaled == 10
MaxSubFinal == 5
MaxSubPilot == 5
MaxSubSimple == 3

\* `if len(all_pages) >= 300: break` (scaled, final); limit_pages=500 (advanced)
PageLimitScaled == 300
PageLimitFinal == 300
LimitPagesAdvanced == 500

\* The domain under discovery
Domain == "example.com"

\* sitemap_urls / sitemap_patterns / common_paths, in probing order
Candidates(v) ==
    IF v = "advanced"
    THEN << "https://" \o Domain \o "/sitemap.xml",
            "https://www." \o Domain \o "/sitemap.xml",
            "https://" \o Domain \o "/sitemap_index.xml",
            "https://" \o Domain \o "/sitemaps.xml" >>
    ELSE << "https://" \o Domain \o "/sitemap.xml",
            "https://www." \o Domain \o "/sitemap.xml" >>

\* The <sitemap> elements the index loop iterates over: the fixer and the
\* advanced parser iterate over all of them
SubLimit(v, subs) ==
    CASE v = "scaled" -> Take(subs, MaxSubScaled)
      [] v = "final"  -> Take(subs, MaxSubFinal)
      [] v = "pilot"  -> Take(subs, MaxSubPilot)
      [] v = "simple" -> Take(subs, MaxSubSimple)
      [] OTHER        -> subs

\* Number of sub-sitemaps of the long index; number of fetch faults of a walk
ManySubs == 11
MaxFaults == 2

Loc(text) == [ has_loc |-> TRUE, text |-> text ]
NoLoc == [ has_loc |-> FALSE, text |-> "" ]

\* <url> elements of the pages from..to of the site
UrlsOf(from, to) == [ i \in 1..(to - from + 1) |-> Loc(SiteUrl(from + i - 1)) ]

SubUrl(k) == "https://" \o Domain \o "/sitemap-pages-" \o ToString(k) \o ".xml"

UrlSet(urls) == [ ok |-> TRUE, kind |-> "urlset", subs |-> << >>, urls |-> urls ]
IndexOf(subs) == [ ok |-> TRUE, kind |-> "index", subs |-> subs, urls |-> << >> ]

\* The three sub-sitemaps of the short index: pages under /products/,
\* /careers/ and /legal/, and the address of a sitemap file
SectionUrls(k) ==
    << Loc("https://" \o Domain \o "/products/item-" \o ToString(k)),
       Loc("https://" \o Domain \o "/careers/job-" \o ToString(k)),
       Loc("https://" \o Domain \o "/legal/terms-" \o ToString(k)),
       Loc(SubUrl(k)) >>

DocNames ==
    { "empty", "small", "sub1", "sub2", "sub3", "tiny", "malformed",
      "almost", "two", "huge", "index3", "indexBig", "indexMany",
      "indexOfIndex", "nested", "mentions" }

\* The documents the site can serve
Doc ==
    [ n \in DocNames |->
        CASE n = "empty"     -> UrlSet(<< Loc("https://" \o Domain \o "/post-sitemap.xml"),
                                          Loc(""), NoLoc >>)
          [] n = "small"     -> UrlSet(UrlsOf(1, 6) \o << Loc(SubUrl(1)) >>)
          [] n = "sub1"      -> UrlSet(SectionUrls(1))
          [] n = "sub2"      -> UrlSet(SectionUrls(2))
          [] n = "sub3"      -> UrlSet(SectionUrls(3))
          [] n = "tiny"      -> UrlSet(UrlsOf(7, 7))
          [] n = "malformed" -> [ ok |-> FALSE, kind |-> "urlset", subs |-> << >>,
                                  urls |-> UrlsOf(1, 6) ]
          [] n = "almost"    -> UrlSet(UrlsOf(1, PageLimitScaled - 1))
          [] n = "two"       -> UrlSet(UrlsOf(PageLimitScaled, PageLimitScaled + 1))
          [] n = "huge"      -> UrlSet(UrlsOf(1, LimitPagesAdvanced + 1))
          [] n = "index3"    -> IndexOf(<< Loc(SubUrl(1)), Loc(SubUrl(2)), Loc(SubUrl(3)) >>)
          [] n = "indexBig"  -> IndexOf(<< Loc(SubUrl(21)), Loc(SubUrl(22)), Loc(SubUrl(3)) >>)
          [] n = "indexMany" -> IndexOf(<< NoLoc >> \o
                                        [ k \in 1..ManySubs |-> Loc(SubUrl(100 + k)) ])
          [] n = "indexOfIndex" -> IndexOf(<< Loc(SubUrl(31)), Loc(SubUrl(3)) >>)
          [] n = "nested"    -> IndexOf(<< Loc(SubUrl(1)), Loc(SubUrl(2)) >>)
          [] n = "mentions"  -> UrlSet(UrlsOf(1, 6) \o
                                       << Loc("https://" \o Domain \o "/blog/sitemapindex-guide") >>) ]

\* The sites a script is run on: the long documents are served to the
\* scripts that bound the number of pages
SitesFor(v) ==
    { "none", "direct", "www", "emptyfirst", "badfirst", "index3", "alt", "many",
      "nested", "mentions" }
        \cup (IF v = "scaled" THEN {"indexBig"} ELSE {})
        \cup (IF v = "advanced" THEN {"huge"} ELSE {})

\* The documents a script can meet
DocsFor(v) ==
    (DocNames \ {"almost", "two", "huge"})
        \cup (IF v = "scaled" THEN {"almost", "two"} ELSE {})
        \cup (IF v = "advanced" THEN {"huge"} ELSE {})

\* pages = parse_*(xml, domain) of each document, per script
Extracted ==
    [ v \in WalkVariants |-> [ n \in DocsFor(v) |-> ExtractPages(v, Doc[n], Domain) ] ]

\* What the sub-sitemap addresses serve
SubDocs ==
    [ u \in { SubUrl(k) : k \in {1, 2, 3, 21, 22, 31} \cup { 100 + j : j \in 1..ManySubs } } |->
        CASE u = SubUrl(1)  -> "sub1"
          [] u = SubUrl(2)  -> "sub2"
          [] u = SubUrl(3)  -> "sub3"
          [] u = SubUrl(21) -> "almost"
          [] u = SubUrl(22) -> "two"
          [] u = SubUrl(31) -> "nested"
          [] OTHER          -> "tiny" ]

Root == "https://" \o Domain \o "/sitemap.xml"
WwwRoot == "https://www." \o Domain \o "/sitemap.xml"
AltRoot == "https://" \o Domain \o "/sitemap_index.xml"

SiteNames ==
    { "none", "direct", "www", "emptyfirst", "badfirst", "index3", "alt",
      "many", "huge", "indexBig", "nested", "mentions" }

\* The sitemap files of each site: address -> document
Web ==
    [ s \in SiteNames |->
        CASE s = "none"       -> << >>
          [] s = "direct"     -> (Root :> "small")
          [] s = "www"        -> (WwwRoot :> "small")
          [] s = "emptyfirst" -> (Root :> "empty") @@ (WwwRoot :> "small")
          [] s = "badfirst"   -> (Root :> "malformed") @@ (WwwRoot :> "small")
          [] s = "index3"     -> (Root :> "index3") @@ SubDocs
          [] s = "alt"        -> (AltRoot :> "index3") @@ SubDocs
          [] s = "many"       -> (Root :> "indexMany") @@ SubDocs
          [] s = "huge"       -> (Root :> "huge")
          [] s = "indexBig"   -> (Root :> "indexBig") @@ SubDocs
          [] s = "nested"     -> (Root :> "indexOfIndex") @@ SubDocs
          [] s = "mentions"   -> (Root :> "mentions") ]

\* What a fetch can meet: the site's answer, or a fault (a non-success
\* status, a connection error that raises, or the timeout of the request,
\* which raises as well)
FetchOutcomes(w) ==
    {"served"} \cup (IF w.faults < MaxFaults THEN {"status", "raised", "timeout"} ELSE {})

\* session.get(url): the status, and the name of the document of a 200
Response(w, url, o) ==
    IF o = "served"
    THEN IF url \in DOMAIN Web[w.site]
         THEN [ status |-> "200", doc |-> Web[w.site][url] ]
         ELSE [ status |-> "404", doc |-> "empty" ]
    ELSE IF o = "status" THEN [ status |-> "500", doc |-> "empty" ]
    ELSE IF o = "timeout" THEN [ status |-> "timeout", doc |-> "empty" ]
    ELSE [ status |-> "raised", doc |-> "empty" ]

\* `if response.status == 200`
StatusOk(r) == r.status = "200"

\* The walk after the fetch of url: the request is on record
Logged(w, url, role, o) ==
    LET r == Response(w, url, o)
    IN  [ w EXCEPT !.fetched = Append(@, [ url |-> url, role |-> role,
                                           status |-> r.status, doc |-> r.doc ]),
                   !.faults = IF o = "served" THEN @ ELSE @ + 1 ]

\* `continue`: the next candidate, or the end of the candidate loop
NextCandidate(w) ==
    IF w.ci < Len(Candidates(w.variant))
    THEN [ w EXCEPT !.pc = "probe", !.ci = @ + 1 ]
    ELSE [ w EXCEPT !.pc = "returned" ]

\* real_pages.extend(pages), then `if len(pages) > 0: break` (scaled, final)
\* or `break` (pilot, fixer)
AfterEntry(w, pages) ==
    LET w2 == [ w EXCEPT !.real_pages = @ \o pages, !.subs = << >>, !.si = 0,
                         !.all_pages = << >> ]
    IN  IF w.variant \in {"scaled", "final"} /\ Len(pages) = 0
        THEN NextCandidate(w2)
        ELSE [ w2 EXCEPT !.pc = "returned" ]

\* The end of the loop over the <sitemap> elements
EndOfIndex(w) ==
    IF w.variant \in {"scaled", "final", "pilot"}
    THEN AfterEntry(w, w.all_pages)
    ELSE [ w EXCEPT !.pc = "returned", !.subs = << >>, !.si = 0 ]

\* The loop over the <sitemap> elements starts
EnterIndex(w, doc) ==
    LET w2 == [ w EXCEPT !.subs = SubLimit(w.variant, doc.subs), !.si = 1,
                         !.all_pages = << >> ]
    IN  IF w2.subs = << >> THEN EndOfIndex(w2) ELSE [ w2 EXCEPT !.pc = "sub" ]

\* 'sitemapindex' in xml_content: the name of the root element, or the
\* text of a <loc>
MentionsIndex(doc) ==
    \/ doc.kind = "index"
    \/ \E i \in 1..Len(doc.urls) : Contains(doc.urls[i].text, "sitemapindex")
    \/ \E i \in 1..Len(doc.subs) : Contains(doc.subs[i].text, "sitemapindex")

\* 'sitemapindex' in xml_content or '<sitemap>' in xml_content (scaled,
\* pilot); 'sitemapindex' in xml_content (final); a non-empty
\* root.findall('.//sitemap') (fixer, advanced)
IsIndex(v, doc) ==
    CASE v \in {"scaled", "pilot"} -> MentionsIndex(doc) \/ doc.subs # << >>
      [] v \in {"final", "simple"}  -> MentionsIndex(doc)
      [] OTHER                     -> doc.ok /\ doc.subs # << >>

\* What the candidate loop does with a 200 response
OnEntryDocument(w, name) ==
    LET doc == Doc[name]
    IN  CASE w.variant \in {"scaled", "final", "pilot"} ->
               IF IsIndex(w.variant, doc)
               THEN IF doc.ok THEN EnterIndex(w, doc) ELSE AfterEntry(w, << >>)
               ELSE AfterEntry(w, Extracted[w.variant][name])
          [] w.variant = "fixer" ->
               IF ~doc.ok THEN NextCandidate(w)
               ELSE IF IsIndex(w.variant, doc) THEN EnterIndex(w, doc)
               ELSE AfterEntry(w, Extracted[w.variant][name])
          [] w.variant = "simple" ->
               IF IsIndex(w.variant, doc)
               THEN IF doc.ok THEN EnterIndex(w, doc) ELSE [ w EXCEPT !.pc = "returned" ]
               ELSE AfterEntry(w, Extracted[w.variant][name])

\* parse_company_real_pages (advanced) after the second fetch of the entry
OnMainDocument(w, name) ==
    LET doc == Doc[name]
    IN  IF ~doc.ok THEN [ w EXCEPT !.pc = "returned" ]
        ELSE IF IsIndex(w.variant, doc) THEN EnterIndex(w, doc)
        ELSE [ w EXCEPT !.pc = "returned",
                        !.real_pages = Take(Extracted[w.variant][name],
                                            LimitPagesAdvanced) ]

\* One candidate address is fetched
AfterProbe(w, o) ==
    LET url == Candidates(w.variant)[w.ci]
        r == Response(w, url, o)
        w2 == Logged(w, url, "candidate", o)
    IN  IF w.variant = "advanced"
        THEN IF StatusOk(r)
             THEN [ w2 EXCEPT !.entry = url, !.pc = "main" ]
             ELSE NextCandidate(w2)
        ELSE IF StatusOk(r)
             THEN OnEntryDocument([ w2 EXCEPT !.entry = url ], r.doc)
             ELSE IF w.variant = "simple" /\ r.status \in {"raised", "timeout"}
                  THEN [ w2 EXCEPT !.pc = "returned" ]
                  ELSE NextCandidate(w2)

\* advanced: the entry point find_main_sitemap returned is fetched again
AfterMain(w, o) ==
    LET r == Response(w, w.entry, o)
        w2 == Logged(w, w.entry, "main", o)
    IN  IF StatusOk(r) THEN OnMainDocument(w2, r.doc)
        ELSE [ w2 EXCEPT !.pc = "returned" ]

\* The pages of a fetched sub-sitemap join the pages found so far
AddSubPages(w, pages) ==
    CASE w.variant \in {"scaled", "final", "pilot"} ->
           [ w EXCEPT !.all_pages = @ \o pages ]
      [] w.variant \in {"fixer", "simple"} ->
           [ w EXCEPT !.real_pages = @ \o pages ]
      [] w.variant = "advanced" ->
           [ w EXCEPT !.real_pages =
               @ \o Take(pages, LimitPagesAdvanced - Len(w.real_pages)) ]

\* `if len(all_pages) >= 300: break` after a fetched sub-sitemap; the
\* advanced parser tests len(real_pages) >= limit_pages before the next one
LimitReached(w) ==
    CASE w.variant = "scaled"   -> Len(w.all_pages) >= PageLimitScaled
      [] w.variant = "final"    -> Len(w.all_pages) >= PageLimitFinal
      [] w.variant = "advanced" -> Len(w.real_pages) >= LimitPagesAdvanced
      [] OTHER                  -> FALSE

\* Mutation of NextSub: the loop stays on the <sitemap> element it has just
\* handled
NextSubStays(w) == [ w EXCEPT !.pc = "sub" ]

\* The loop moves to the next <sitemap> element or ends
NextSub(w) ==
    IF w.si < Len(w.subs)
    THEN [ w EXCEPT !.si = @ + 1 ]
    ELSE EndOfIndex(w)

\* Mutation of OnSubFailure: the failure of a sub-sitemap ends the walk
\* with nothing
OnSubFailureAborts(w) ==
    [ w EXCEPT !.pc = "returned", !.real_pages = << >>, !.all_pages = << >>,
               !.subs = << >>, !.si = 0 ]

\* `except: continue`, or a status other than 200: the next element
OnSubFailure(w) == NextSub(w)

\* Mutation of AfterSub: the sub-sitemaps listed by a sub-sitemap that is an
\* index join the loop
AfterSubDescends(w, o) ==
    LET url == w.subs[w.si].text
        r == Response(w, url, o)
        w2 == Logged(w, url, "sub", o)
    IN  IF StatusOk(r)
        THEN LET w3 == AddSubPages([ w2 EXCEPT !.subs = @ \o Doc[r.doc].subs ],
                                   Extracted[w.variant][r.doc])
             IN  IF LimitReached(w3) THEN EndOfIndex(w3) ELSE NextSub(w3)
        ELSE OnSubFailure(w2)

\* One sub-sitemap is fetched
AfterSub(w, o) ==
    LET url == w.subs[w.si].text
        r == Response(w, url, o)
        w2 == Logged(w, url, "sub", o)
    IN  IF StatusOk(r)
        THEN LET w3 == AddSubPages(w2, Extracted[w.variant][r.doc])
             IN  IF LimitReached(w3) THEN EndOfIndex(w3) ELSE NextSub(w3)
        ELSE OnSubFailure(w2)

walkFrame == << storeVars, envVars, fixVars, observed, ex, cl, taxonomy, calls, batch >>

\* extract_*(domain) / parse_company_real_pages(domain) is called
StartWalk ==
    /\ walk.pc = "ready"
    /\ walk.caller # 0 => pc[walk.caller] = "extract"
    /\ walk' = [ walk EXCEPT !.pc = "probe", !.ci = 1 ]
    /\ UNCHANGED walkFrame

\* The fetch of the candidate address ci and what follows it up to the
\* next fetch
Probe ==
    /\ walk.pc = "probe"
    /\ \E o \in FetchOutcomes(walk) : walk' = AfterProbe(walk, o)
    /\ UNCHANGED walkFrame

\* advanced: the fetch of the entry point by parse_company_real_pages
FetchMain ==
    /\ walk.pc = "main"
    /\ \E o \in FetchOutcomes(walk) : walk' = AfterMain(walk, o)
    /\ UNCHANGED walkFrame

\* The fetch of the sub-sitemap of the <sitemap> element si
FetchSub ==
    /\ walk.pc = "sub"
    /\ walk.subs[walk.si].has_loc
    /\ \E o \in FetchOutcomes(walk) : walk' = AfterSub(walk, o)
    /\ UNCHANGED walkFrame

\* `if loc_elem is not None` fails: the element is passed over
SkipSub ==
    /\ walk.pc = "sub"
    /\ ~walk.subs[walk.si].has_loc
    /\ walk' = NextSub(walk)
    /\ UNCHANGED walkFrame

WalkStep == StartWalk \/ Probe \/ FetchMain \/ FetchSub \/ SkipSub

InitWalk ==
    /\ InitFixWith({"scaled"}, {{}})
    /\ ex = ExIdle
    /\ cl = ClIdle
    /\ taxonomy = BI_TAXONOMY
    /\ calls = << >>
    /\ batch = BatchIdle
    /\ walk \in UNION { { [ WalkIdle EXCEPT !.pc = "ready", !.variant = v, !.site = s ] :
                              s \in SitesFor(v) } : v \in WalkVariants }

NextWalk == WalkStep

SpecWalk == InitWalk /\ [][NextWalk]_vars

\* A discovery is a coroutine (or a function) that runs on until it returns:
\* every request either answers or runs into its timeout
SpecWalkFair == SpecWalk /\ WF_vars(NextWalk)

(***************************************************************************)
(* BIClassifier called repeatedly by concurrent workers.  classify_page_bi  *)
(* reads the module-level dict BI_TAXONOMY; get_enhanced_bi_classification  *)
(* reads nothing but its argument.  Neither awaits, so a call is one step   *)
(* of the event loop.                                                       *)
(***************************************************************************)

\* Largest number of classifier calls of a run
MaxCalls == 3

\* The coroutines that call the classifier
Workers == {1, 2}

\* The (script, url, title) triples the workers classify
CallInputs ==
    { [ variant |-> "taxonomy", url |-> "https://example.com/careers/products",
        title |-> "" ],
      [ variant |-> "taxonomy", url |-> "https://example.com/products",
        title |-> "" ],
      [ variant |-> "taxonomy", url |-> "https://example.com/widgets",
        title |-> "About Us" ],
      [ variant |-> "scaled", url |-> "https://example.com/careers/products",
        title |-> "" ],
      [ variant |-> "scaled", url |-> "https://example.com/products",
        title |-> "" ] }

\* Position of the rule named name in the table t, 0 when it has none
RuleIndex(t, name) ==
    IF \E k \in 1..Len(t) : t[k].name = name
    THEN CHOOSE k \in 1..Len(t) : t[k].name = name
    ELSE 0

\* Mutation of TaxonomyAfterCall: the rule that matched is moved to the
\* front of the table
TaxonomyAfterCallPromotes(t, out) ==
    LET k == RuleIndex(t, out.bi_classification)
    IN  IF k = 0 THEN t
        ELSE << t[k] >> \o SubSeq(t, 1, k - 1) \o SubSeq(t, k + 1, Len(t))

\* BI_TAXONOMY after a call of classify_page_bi: the function only reads it
TaxonomyAfterCall(t, out) == t

\* The triple a call returns: classify_page_bi scans the table as it is now
CallResult(in) ==
    IF in.variant = "taxonomy"
    THEN ScanRules(taxonomy, 1, Lower(in.url), Lower(in.title), Unclassified)
    ELSE get_enhanced_bi_classification(in.url)

\* Worker w calls the classifier
CallClassifier(w) ==
    /\ Len(calls) < MaxCalls
    /\ \E in \in CallInputs :
         LET out == CallResult(in)
         IN  /\ calls' = Append(calls, [ worker |-> w, variant |-> in.variant,
                                         url |-> in.url, title |-> in.title,
                                         out |-> out ])
             /\ taxonomy' = IF in.variant = "taxonomy"
                            THEN TaxonomyAfterCall(taxonomy, out)
                            ELSE taxonomy
    /\ UNCHANGED << storeVars, envVars, fixVars, observed, ex, cl, walk, batch >>

InitCalls ==
    /\ InitFixWith({"scaled"}, {{}})
    /\ ex = ExIdle
    /\ cl = ClIdle
    /\ OthersIdle

NextCalls == \E w \in Workers : CallClassifier(w)

SpecCalls == InitCalls /\ [][NextCalls]_vars

PipelineVariants == {"scaled", "final"}

\* The sites of the end-to-end runs
PipelineSites == {"none", "direct", "www", "emptyfirst", "badfirst", "index3"}

InitPipeline ==
    /\ InitFixWith(PipelineVariants, RejectChoices)
    /\ ex = ExIdle
    /\ cl = ClIdle
    /\ taxonomy = BI_TAXONOMY
    /\ calls = << >>
    /\ batch = BatchIdle
    /\ walk \in { [ WalkIdle EXCEPT !.pc = "ready", !.variant = variant,
                                    !.site = s, !.caller = 1 ] : s \in PipelineSites }

\* Mutation of DiscoverWalked: the minimum-yield guard is left out
DiscoverWalkedUnguarded(s) ==
    /\ pc[s] = "extract"
    /\ walk.caller = s
    /\ walk.pc = "returned"
    /\ walk' = [ walk EXCEPT !.pc = "done" ]
    /\ real_pages' = [ real_pages EXCEPT ![s] = walk.real_pages ]
    /\ pc' = [ pc EXCEPT ![s] = "delete" ]
    /\ UNCHANGED << storeVars, envVars, idx, inserted, runs, pre, prev, stmts,
                    rowFailed, observed, ex, cl, taxonomy, calls, batch, failed,
                    result >>

\* real_pages = await extract_company_real_pages(domain) returns, then the
\* minimum-yield guard
DiscoverWalked(s) ==
    /\ pc[s] = "extract"
    /\ walk.caller = s
    /\ walk.pc = "returned"
    /\ walk' = [ walk EXCEPT !.pc = "done" ]
    /\ real_pages' = [ real_pages EXCEPT ![s] = walk.real_pages ]
    /\ IF EnoughPages(variant, Len(walk.real_pages))
       THEN /\ pc' = [ pc EXCEPT ![s] = "delete" ]
            /\ UNCHANGED result
       ELSE Finish(s, "False")
    /\ UNCHANGED << storeVars, envVars, idx, inserted, runs, pre, prev, stmts,
                    rowFailed, observed, ex, cl, taxonomy, calls, batch, failed >>

NextPipeline ==
    \/ StartWalk
    \/ Probe
    \/ FetchSub
    \/ \E s \in Structures :
          \/ Begin(s)
          \/ CountPages(s)
          \/ CountFails(s)
          \/ DiscoverWalked(s)
          \/ DeletePages(s)
          \/ DeleteFails(s)
          \/ InsertPage(s)
          \/ InsertRejected(s)
          \/ UpdateStructure(s)
          \/ UpdateFails(s)

SpecPipeline == InitPipeline /\ [][NextPipeline]_vars

\* The fetches of one role a walk has made, in order
FetchesOf(w, role) == SelectSeq(w.fetched, LAMBDA f : f.role = role)

\* The URLs of the <url> elements of a document that are not addresses of
\* sitemap files
PageUrlsOf(name) ==
    { Doc[name].urls[i].text : i \in { j \in 1..Len(Doc[name].urls) :
          /\ Doc[name].urls[j].has_loc
          /\ ~Contains(Lower(Doc[name].urls[j].text), "sitemap") } }

\* The path of a URL of the domain starts with prefix
UnderPath(url, prefix) ==
    \/ StartsWith(url, "https://" \o Domain \o prefix)
    \/ StartsWith(url, "https://www." \o Domain \o prefix)

\* Scenario 2 took place: /sitemap.xml was an index of 3 sub-sitemaps, each
\* fetched with success, and the reconciliation stored every row it was given
Scenario2 ==
    /\ variant = "scaled"
    /\ walk.site = "index3"
    /\ walk.entry = Root
    /\ Len(FetchesOf(walk, "sub")) = 3
    /\ \A i \in 1..3 : FetchesOf(walk, "sub")[i].status = "200"
    /\ pc[1] = "done"
    /\ result[1] = "True"
    /\ rowFailed[1] = {}

\* C12: after scenario 2 the stored pages hold every listed URL that is not
\* a sitemap file, every /careers/ URL is stored as "careers" with tier 1 and
\* every /legal/ URL is stored as "legal" with tier 6.
C12_Scenario2Stored ==
    Scenario2 =>
        /\ PageUrlsOf("sub1") \cup PageUrlsOf("sub2") \cup PageUrlsOf("sub3")
              \subseteq { website_pages[1][i].url : i \in 1..Len(website_pages[1]) }
        /\ \A i \in 1..Len(website_pages[1]) :
              LET row == website_pages[1][i]
              IN  /\ UnderPath(row.url, "/careers/") =>
                        /\ row.bi_classification = "careers"
                        /\ row.business_value_tier = 1
                  /\ UnderPath(row.url, "/legal/") =>
                        /\ row.bi_classification = "legal"
                        /\ row.business_value_tier = 6

\* The sub-sitemap fetches of a walk that failed (a status other than 200, a
\* timeout or an exception) and those that succeeded
FailedSubs(w) == SelectSeq(w.fetched, LAMBDA f : f.role = "sub" /\ f.status # "200")
ServedSubs(w) == SelectSeq(w.fetched, LAMBDA f : f.role = "sub" /\ f.status = "200")

\* Scenario 3 took place: the entry document was an index, the fetch of a
\* listed sub-sitemap failed, another succeeded, and the walk has returned
Scenario3 ==
    /\ variant = "scaled"
    /\ walk.site = "index3"
    /\ walk.pc \in {"returned", "done"}
    /\ Len(FailedSubs(walk)) >= 1
    /\ Len(ServedSubs(walk)) >= 1

\* C13: after scenario 3 every listed sub-sitemap has been requested (the
\* walk went on past the failure), the output holds the entries of every
\* sub-sitemap fetched with success, and the failure does not mark the
\* company failed: with enough pages the reconciliation goes ahead and only
\* a store statement that raises can fail it, with fewer the company is
\* skipped at the minimum-yield guard.
C13_SubFailureSkipped ==
    Scenario3 =>
        /\ \A k \in 1..Len(Doc["index3"].subs) :
              \E i \in 1..Len(walk.fetched) :
                  /\ walk.fetched[i].role = "sub"
                  /\ walk.fetched[i].url = Doc["index3"].subs[k].text
        /\ \A i \in 1..Len(ServedSubs(walk)) :
              LET pages == Extracted[walk.variant][ServedSubs(walk)[i].doc]
              IN  \A k \in 1..Len(pages) :
                      \E j \in 1..Len(walk.real_pages) : walk.real_pages[j] = pages[k]
        /\ walk.pc = "done" =>
              IF EnoughPages(variant, Len(walk.real_pages))
              THEN (pc[1] = "done" /\ result[1] = "False") => failed[1] # "none"
              ELSE /\ pc[1] = "done"
                   /\ result[1] = "False"
                   /\ failed[1] = "none"
                   /\ stmts[1] = NoStmts

\* One sub-sitemap failed, the two others were stored
C13_Witness ==
    /\ Scenario3
    /\ Len(FailedSubs(walk)) = 1
    /\ Len(ServedSubs(walk)) = 2
    /\ FailedSubs(walk)[1].status = "500"
    /\ pc[1] = "done"
    /\ result[1] = "True"
    /\ Len(website_pages[1]) = 6

\* Scenario 1 took place: the walk has returned and no conventional path it
\* requested answered with status 200
Scenario1 ==
    /\ variant = "scaled"
    /\ walk.pc \in {"returned", "done"}
    /\ Len(FetchesOf(walk, "candidate")) = Len(Candidates(walk.variant))
    /\ \A i \in 1..Len(walk.fetched) : walk.fetched[i].status # "200"

\* C14: after scenario 1 the discovery has zero entries, no DELETE, INSERT
\* or UPDATE is executed for the company and its stored pages stay as they
\* were, and the run ends at the minimum-yield guard (recorded as
\* insufficient yield: result False with no statement having raised).
C14_NoSitemapSkipped ==
    Scenario1 =>
        /\ walk.real_pages = << >>
        /\ stmts[1] = NoStmts
        /\ website_pages[1] = pre[1].rows
        /\ walk.pc = "done" =>
              /\ pc[1] = "done"
              /\ result[1] = "False"
              /\ failed[1] = "none"

\* No path of a site without sitemap answered, and the company was skipped
C14_Witness ==
    /\ Scenario1
    /\ walk.site = "none"
    /\ walk.pc = "done"
    /\ pc[1] = "done"
    /\ Len(website_pages[1]) > 0

(***************************************************************************)
(* The batch runs: phase3_scaled_deployment (scaled) and                    *)
(* phase3_complete_fix (final) over the list of selected companies.         *)
(***************************************************************************)

BatchScripts == {"scaled", "final"}

\* The longest list of selected companies
MaxCompanies == 3

\* The steps of fix_company_pages at which an exception can be raised
CompanySteps == << "extract", "delete", "insert", "update" >>

StepAfter(step) ==
    CASE step = "extract" -> "delete"
      [] step = "delete"  -> "insert"
      [] step = "insert"  -> "update"
      [] step = "update"  -> "return"

\* `success, pages_added = await fix_company_pages(pool, company)` returns and
\* is counted
Counted(b, success, at) ==
    [ b EXCEPT !.step = "none",
               !.outcome = Append(@, [ company |-> b.companies[b.i],
                                       success |-> success, raisedAt |-> at ]),
               !.stats = [ processed  |-> @.processed + 1,
                           successful |-> @.successful + (IF success THEN 1 ELSE 0),
                           failed     |-> @.failed + (IF success THEN 0 ELSE 1) ] ]

\* `except Exception as e: ... return False, 0` of fix_company_pages
OnCompanyException(b) == Counted(b, FALSE, b.step)

\* The denominator of the success rate of the final summary
RateDenominator(b) ==
    IF b.script = "scaled" THEN Len(b.companies) ELSE b.stats.processed

batchFrame == << storeVars, envVars, fixVars, observed, ex, cl, walk, taxonomy, calls >>

\* The run starts with its list of companies and zeroed statistics
StartBatch ==
    /\ batch.pc = "ready"
    /\ batch' = [ batch EXCEPT !.pc = "loop" ]
    /\ UNCHANGED batchFrame

\* scaled: `task = fix_single_company(pool, company, stats)` for the first
\* company of the first batch; the name is bound nowhere in the module
CreateTask ==
    /\ batch.pc = "loop"
    /\ batch.script = "scaled"
    /\ batch.i < Len(batch.companies)
    /\ batch' = [ batch EXCEPT !.i = @ + 1, !.step = "call", !.pc = "crashed",
                               !.error = "NameError" ]
    /\ UNCHANGED batchFrame

\* final: the loop takes the next company and calls fix_company_pages
NextCompany ==
    /\ batch.pc = "loop"
    /\ batch.script = "final"
    /\ batch.step = "none"
    /\ batch.i < Len(batch.companies)
    /\ batch' = [ batch EXCEPT !.i = @ + 1, !.step = "extract" ]
    /\ UNCHANGED batchFrame

\* A step of fix_company_pages completes
CompanyStep ==
    /\ batch.pc = "loop"
    /\ batch.step \in { CompanySteps[k] : k \in 1..Len(CompanySteps) }
    /\ batch' = IF StepAfter(batch.step) = "return"
                THEN Counted(batch, TRUE, "none")
                ELSE [ batch EXCEPT !.step = StepAfter(@) ]
    /\ UNCHANGED batchFrame

\* `if len(real_pages) < 5: return False, 0`
CompanySkipped ==
    /\ batch.pc = "loop"
    /\ batch.step = "extract"
    /\ batch' = Counted(batch, FALSE, "none")
    /\ UNCHANGED batchFrame

\* A step of fix_company_pages raises
CompanyRaises ==
    /\ batch.pc = "loop"
    /\ batch.step \in { CompanySteps[k] : k \in 1..Len(CompanySteps) }
    /\ batch' = OnCompanyException(batch)
    /\ UNCHANGED batchFrame

\* The loop is over: the lines of the final summary are printed up to the
\* success rate
EndOfLoop ==
    /\ batch.pc = "loop"
    /\ batch.step = "none"
    /\ batch.i = Len(batch.companies)
    /\ batch' = [ batch EXCEPT !.pc = "summary" ]
    /\ UNCHANGED batchFrame

\* scaled: success_rate = stats["successful"] / total_companies * 100
\* final: {stats["successful"]/stats["processed"]*100:.1f}
SuccessRate ==
    /\ batch.pc = "summary"
    /\ batch' = IF RateDenominator(batch) = 0
                THEN [ batch EXCEPT !.pc = "crashed", !.error = "ZeroDivisionError" ]
                ELSE [ batch EXCEPT !.pc = "done" ]
    /\ UNCHANGED batchFrame

InitBatch ==
    /\ InitFixWith({"final"}, {{}})
    /\ ex = ExIdle
    /\ cl = ClIdle
    /\ walk = WalkIdle
    /\ taxonomy = BI_TAXONOMY
    /\ calls = << >>
    /\ batch \in { [ BatchIdle EXCEPT !.pc = "ready", !.script = sc,
                                      !.companies = [ k \in 1..n |-> k ] ] :
                   sc \in BatchScripts, n \in 0..MaxCompanies }

NextBatch ==
    \/ StartBatch
    \/ CreateTask
    \/ NextCompany
    \/ CompanyStep
    \/ CompanySkipped
    \/ CompanyRaises
    \/ EndOfLoop
    \/ SuccessRate

SpecBatch == InitBatch /\ [][NextBatch]_vars

\* The run is over, with its summary or with an uncaught exception
BatchOver == batch.pc \in {"done", "crashed"}

\* The companies whose pipeline raised: an exception inside
\* fix_company_pages, or the call of the pipeline itself raising
RaisedCompanies ==
    { batch.outcome[k].company :
          k \in { j \in 1..Len(batch.outcome) : batch.outcome[j].raisedAt # "none" } }
        \cup (IF batch.step = "call" /\ batch.error # "none"
              THEN { batch.companies[batch.i] } ELSE {})

\* The companies processed to completion, and those counted as failed
CompletedCompanies == { batch.outcome[k].company : k \in 1..Len(batch.outcome) }
FailedCompanies ==
    { batch.outcome[k].company :
          k \in { j \in 1..Len(batch.outcome) : ~batch.outcome[j].success } }

\* C15: when the pipeline of a company has raised, the run does not stop on
\* it: at the end of the run that company is counted as failed and every
\* company of the list has been processed to completion.
C15_FailureIsolated ==
    (BatchOver /\ RaisedCompanies # {}) =>
        /\ RaisedCompanies \subseteq FailedCompanies
        /\ batch.stats.failed = Cardinality(FailedCompanies)
        /\ CompletedCompanies = { batch.companies[k] : k \in 1..Len(batch.companies) }

\* C17: the batch run never ends on an uncaught exception, for no list and
\* no outcome of its companies; when it has ended every company of the list
\* is accounted for, and with every company failed the successes are zero.
C17_CleanTermination ==
    /\ batch.pc # "crashed"
    /\ batch.pc = "done" =>
          /\ batch.stats.processed = Len(batch.companies)
          /\ batch.stats.successful + batch.stats.failed = batch.stats.processed
          /\ FailedCompanies = CompletedCompanies => batch.stats.successful = 0

\* maxTotalPages of the two walkers that have one: `>= 300` (scaled) and
\* limit_pages=500 (advanced)
MaxTotalPages(v) ==
    IF v = "advanced" THEN LimitPagesAdvanced ELSE PageLimitScaled

\* C18: the sequence of entries a walker returns has at most maxTotalPages
\* entries, whatever the entry document and the sub-sitemaps hold.
C18_OutputBounded ==
    (walk.variant \in {"scaled", "advanced"} /\ walk.pc = "returned") =>
        Len(walk.real_pages) <= MaxTotalPages(walk.variant)

\* C19: one walk fetches at most maxSubSitemaps sub-sitemaps (10, the only
\* bound on sub-sitemaps the three scripts define), however many the index
\* lists.
C19_SubFetchesBounded ==
    walk.variant \in {"scaled", "advanced", "fixer"} =>
        Len(FetchesOf(walk, "sub")) <= MaxSubScaled

\* C20: the candidate paths are requested in their fixed order, a candidate
\* that answers 200 is the entry point and the last candidate requested, and
\* a walk that ends with no entry point has requested every candidate and
\* none answered 200.
C20_FirstSuccessIsEntry ==
    walk.variant \in {"advanced", "scaled", "pilot"} =>
        LET probes == FetchesOf(walk, "candidate")
        IN  /\ \A i \in 1..Len(probes) : probes[i].url = Candidates(walk.variant)[i]
            /\ \A i \in 1..Len(probes) :
                  probes[i].status = "200" =>
                      /\ i = Len(probes)
                      /\ walk.entry = probes[i].url
            /\ (walk.pc = "returned" /\ \A i \in 1..Len(probes) : probes[i].status # "200") =>
                  /\ Len(probes) = Len(Candidates(walk.variant))
                  /\ walk.real_pages = << >>

(***************************************************************************)
(* Time of a discovery: the seconds its requests have taken.                *)
(***************************************************************************)

\* aiohttp.ClientTimeout(total=20) of the session, total=10 of a sub-sitemap
\* request
SessionTimeout == 20
SubTimeout == 10

\* The timeout of one request of the scaled script
RequestTimeout(f) == IF f.role = "sub" THEN SubTimeout ELSE SessionTimeout

\* The least time the requests up to the k-th have taken: a request that
\* timed out has lasted its whole timeout, any other at least one second
RECURSIVE ElapsedUpTo(_, _)
ElapsedUpTo(w, k) ==
    IF k = 0 THEN 0
    ELSE ElapsedUpTo(w, k - 1)
           + (IF w.fetched[k].status = "timeout" THEN RequestTimeout(w.fetched[k]) ELSE 1)

Elapsed(w) == ElapsedUpTo(w, Len(w.fetched))

\* C21: a discovery that has run past its overall time budget (the 20
\* seconds extract_company_real_pages sets on its session) is abandoned: it
\* issues no request after the budget is spent, and the company is counted
\* as failed with nothing reconciled.
C21_BudgetAbandons ==
    variant = "scaled" =>
        /\ \A k \in 1..Len(walk.fetched) : ElapsedUpTo(walk, k - 1) <= SessionTimeout
        /\ (Elapsed(walk) > SessionTimeout /\ walk.pc = "done") =>
              /\ pc[1] = "done"
              /\ result[1] = "False"
              /\ stmts[1] = NoStmts

\* The addresses the <sitemap> elements of a document point to
ListedIn(name) ==
    { Doc[name].subs[k].text : k \in { j \in 1..Len(Doc[name].subs) : Doc[name].subs[j].has_loc } }

\* The documents a walk was served as entry document
EntryDocs(w) ==
    { w.fetched[i].doc : i \in { j \in 1..Len(w.fetched) :
          /\ w.fetched[j].role \in {"candidate", "main"}
          /\ w.fetched[j].status = "200" } }

\* The sub-sitemaps fetched with success that are themselves indexes
NestedIndexes(w) ==
    SelectSeq(w.fetched, LAMBDA f : f.role = "sub" /\ f.status = "200"
                                      /\ Doc[f.doc].kind = "index")

\* C22: the walk is one level deep: every sub-sitemap it requests is listed
\* in the entry document itself, and a fetched sub-sitemap that is an index
\* gives no entry: every entry of the output comes from a fetched document
\* that is a plain sitemap.
C22_OneLevel ==
    walk.variant = "scaled" =>
        /\ \A i \in 1..Len(walk.fetched) :
              walk.fetched[i].role = "sub" =>
                  \E n \in EntryDocs(walk) : walk.fetched[i].url \in ListedIn(n)
        /\ \A j \in 1..Len(walk.real_pages) :
              \E i \in 1..Len(walk.fetched) :
                  /\ walk.fetched[i].status = "200"
                  /\ Doc[walk.fetched[i].doc].kind = "urlset"
                  /\ \E k \in 1..Len(Extracted[walk.variant][walk.fetched[i].doc]) :
                        Extracted[walk.variant][walk.fetched[i].doc][k] = walk.real_pages[j]
        /\ (walk.pc = "returned" /\ Len(NestedIndexes(walk)) > 0) =>
              Len(FetchesOf(walk, "sub")) <= Len(Doc["indexOfIndex"].subs)

\* A sub-sitemap that is an index was fetched, and the walk returned the
\* pages of the plain sub-sitemap only
C22_Witness ==
    /\ walk.variant = "scaled"
    /\ walk.pc = "returned"
    /\ Len(NestedIndexes(walk)) = 1
    /\ walk.real_pages = Extracted["scaled"]["sub3"]
    /\ Len(walk.real_pages) > 0

\* The documents served with status 200 as entry document of a walk, in the
\* order of the requests (the advanced parser reads the entry document from
\* its own request, after the locator's)
ServedEntries(w) ==
    SelectSeq(w.fetched, LAMBDA f : /\ f.status = "200"
                                    /\ f.role = IF w.variant = "advanced" THEN "main"
                                                ELSE "candidate")

\* C23: when the one document served as entry document is well-formed and
\* has no <sitemap> element, the walk requests no sub-sitemap and returns
\* exactly the entries the extractor yields for that document, cut at
\* maxTotalPages.
C23_DirectKind ==
    (/\ walk.variant \in {"scaled", "final", "advanced"}
     /\ walk.pc = "returned"
     /\ Len(ServedEntries(walk)) >= 1
     /\ \A i \in 1..Len(ServedEntries(walk)) :
           /\ ServedEntries(walk)[i].doc = ServedEntries(walk)[1].doc
           /\ Doc[ServedEntries(walk)[i].doc].ok
           /\ Doc[ServedEntries(walk)[i].doc].subs = << >>)
    => /\ FetchesOf(walk, "sub") = << >>
       /\ walk.real_pages =
              Take(Extracted[walk.variant][ServedEntries(walk)[1].doc],
                   MaxTotalPages(walk.variant))

\* The most requests one discovery can issue: each candidate, and for each
\* the sub-sitemaps its index loop may visit
MaxRequests(v) ==
    Len(Candidates(v)) * (1 + (IF v = "simple" THEN MaxSubSimple ELSE MaxSubScaled))

\* No candidate and no sub-sitemap is requested twice, and the requests stay
\* within the bound
NoRequestRepeated ==
    walk.variant \in {"scaled", "simple"} =>
        /\ \A i \in 1..Len(FetchesOf(walk, "candidate")) :
              FetchesOf(walk, "candidate")[i].url = Candidates(walk.variant)[i]
        /\ \A i, j \in 1..Len(FetchesOf(walk, "sub")) :
              FetchesOf(walk, "sub")[i].url = FetchesOf(walk, "sub")[j].url => i = j
        /\ Len(walk.fetched) <= MaxRequests(walk.variant)

DiscoveryEnded == walk.variant \in {"scaled", "simple"} => walk.pc = "returned"

MatchingRules(rules, url, title) ==
    { i \in 1..Len(rules) :
          \/ AnyIn(rules[i].url_patterns, Lower(url))
          \/ AnyIn(rules[i].title_patterns, Lower(title)) }

\* The rules that match by URL only
UrlMatchingRules(rules, url) ==
    { i \in 1..Len(rules) : AnyIn(rules[i].url_patterns, Lower(url)) }

FirstOf(S) == CHOOSE i \in S : \A k \in S : i <= k

\* C25: the result of classify_page_bi and classify_page_by_business_value
\* is that of the first rule of the table that matches by URL or by title;
\* with no matching rule the page is unclassified (tier 7, page type other).
C25_RuleOrderUrlThenTitle ==
    (cl.pc = "done" /\ cl.variant \in TitledClassifiers) =>
        LET rules == RulesOf(cl.variant)
            M == MatchingRules(rules, cl.url, cl.title)
        IN  IF M = {}
            THEN /\ cl.out.business_value_tier = 7
                 /\ PageTypeOf(cl.out) = "other"
            ELSE /\ cl.out.bi_classification = rules[FirstOf(M)].name
                 /\ cl.out.business_value_tier = rules[FirstOf(M)].tier

\* The title matches an earlier rule than any rule the URL matches, and the
\* earlier rule has classified the page
C25_Witness ==
    /\ cl.pc = "done"
    /\ cl.variant \in TitledClassifiers
    /\ UrlMatchingRules(RulesOf(cl.variant), cl.url) # {}
    /\ FirstOf(MatchingRules(RulesOf(cl.variant), cl.url, cl.title))
          < FirstOf(UrlMatchingRules(RulesOf(cl.variant), cl.url))
    /\ cl.out.bi_classification
          = RulesOf(cl.variant)[FirstOf(MatchingRules(RulesOf(cl.variant), cl.url, cl.title))].name

\* The tiers of the rules of a table that match an input
MatchingTiers(rules, url, title) ==
    { rules[i].tier : i \in MatchingRules(rules, url, title) }

\* C27: the tier returned by classify_page_bi and
\* classify_page_by_business_value is the smallest tier among the rules that
\* match the input, and both tables are ordered by non-decreasing tier.
C27_SmallestTier ==
    (cl.pc = "done" /\ cl.variant \in TitledClassifiers) =>
        LET rules == RulesOf(cl.variant)
            T == MatchingTiers(rules, cl.url, cl.title)
        IN  /\ \A t \in T : cl.out.business_value_tier <= t
            /\ T # {} => cl.out.business_value_tier \in T
            /\ \A i \in 1..(Len(rules) - 1) : rules[i].tier <= rules[i + 1].tier

\* A classified input that rules of different tiers match
C27_Witness ==
    /\ cl.pc = "done"
    /\ cl.variant \in TitledClassifiers
    /\ Cardinality(MatchingTiers(RulesOf(cl.variant), cl.url, cl.title)) > 1
    /\ \A t \in MatchingTiers(RulesOf(cl.variant), cl.url, cl.title) :
          cl.out.business_value_tier <= t

\* C26: when a store statement raises after the DELETE of a reconciliation
\* has been executed, the company's rows and its total page count are those
\* the reconciliation found when it began.
C26_AllOrNothingOnFailure ==
    \A s \in Structures :
        (/\ pc[s] = "done"
         /\ failed[s] # "none"
         /\ stmts[s].delete >= 1) =>
            /\ website_pages[s] = pre[s].rows
            /\ total_pages[s] = pre[s].total

\* WHERE wp.url LIKE '%sitemap%' OR wp.url LIKE '%.xml%'
SelectionPredicate(url) == Contains(url, "sitemap") \/ Contains(url, ".xml")

\* The structures the selection query of the batch returns
SelectProblemCompanies ==
    { s \in Structures :
          \E i \in 1..Len(website_pages[s]) : SelectionPredicate(website_pages[s][i].url) }

\* The documents a walk was served
ServedDocs(w) ==
    { w.fetched[k].doc : k \in { j \in 1..Len(w.fetched) : w.fetched[j].status = "200" } }

\* C28: once the reconciliation of a company has completed successfully, no
\* row stored for it has a URL containing "sitemap" or ".xml": the selection
\* query of a later batch run does not return the company.
C28_BatchConverges ==
    \A s \in Structures :
        (pc[s] = "done" /\ result[s] = "True") =>
            /\ \A i \in 1..Len(website_pages[s]) :
                  ~SelectionPredicate(website_pages[s][i].url)
            /\ s \notin SelectProblemCompanies

\* A company the query selected has been reconciled successfully from
\* sitemap documents that list the address of a sitemap file among their
\* pages
C28_Witness ==
    \E s \in Structures :
        /\ pc[s] = "done" /\ result[s] = "True"
        /\ \E i \in 1..Len(pre[s].rows) : SelectionPredicate(pre[s].rows[i].url)
        /\ walk.caller = s
        /\ \E n \in ServedDocs(walk) \cap DocNames :
              \E k \in 1..Len(Doc[n].urls) : SelectionPredicate(Doc[n].urls[k].text)
        /\ website_pages[s] # << >>

(***************************************************************************)
(* Two selected companies reconciled by coroutines of one batch: the       *)
(* statements of the two coroutines interleave at every await.             *)
(***************************************************************************)

\* Rows an earlier crawl stored for structure 2: sitemap files as well
OtherStaleRows ==
    << RowOf(4, MakePage("scaled", "https://other.org/sitemap.xml")),
       RowOf(5, MakePage("scaled", "https://other.org/page-sitemap.xml")) >>

\* Numbers of pages the two discoveries return
ConcurrentLens == {4, 5, 6}

InitConcurrent ==
    /\ variant = "scaled"
    /\ website_pages = [ s \in Structures |-> IF s = 1 THEN StaleRows ELSE OtherStaleRows ]
    /\ total_pages = [ s \in Structures |-> Len(website_pages[s]) ]
    /\ nextId = Len(StaleRows) + Len(OtherStaleRows) + 1
    /\ storeRejects \in RejectChoices
    /\ problem_companies = SelectProblemCompanies
    /\ pc = [ s \in Structures |-> "idle" ]
    /\ real_pages = [ s \in Structures |-> << >> ]
    /\ idx = [ s \in Structures |-> 0 ]
    /\ inserted = [ s \in Structures |-> 0 ]
    /\ result = [ s \in Structures |-> "none" ]
    /\ runs = [ s \in Structures |-> 0 ]
    /\ pre = [ s \in Structures |->
                 [ rows |-> website_pages[s], total |-> total_pages[s] ] ]
    /\ prev = [ s \in Structures |-> NoPrev ]
    /\ stmts = [ s \in Structures |-> NoStmts ]
    /\ rowFailed = [ s \in Structures |-> {} ]
    /\ failed = [ s \in Structures |-> "none" ]
    /\ observed = NotObserved
    /\ ex = ExIdle
    /\ cl = ClIdle
    /\ OthersIdle

NextConcurrent ==
    \E s \in Structures :
        \/ Begin(s)
        \/ CountPages(s)
        \/ CountFails(s)
        \/ Discover(s, ConcurrentLens)
        \/ DeletePages(s)
        \/ DeleteFails(s)
        \/ InsertPage(s)
        \/ InsertRejected(s)
        \/ UpdateStructure(s)
        \/ UpdateFails(s)

SpecConcurrent == InitConcurrent /\ [][NextConcurrent]_vars

\* The coroutine of s takes the step
StepOf(s) == pc'[s] # pc[s] \/ idx'[s] # idx[s]

\* C29: a step of the reconciliation of one structure leaves the rows and
\* the total page count of every other structure as they are, whatever the
\* other reconciliations of the batch are doing.
C29_OtherStructuresUntouched ==
    [][ \A s \in Structures : \A t \in Structures \ {s} :
            StepOf(s) => /\ website_pages'[t] = website_pages[t]
                         /\ total_pages'[t] = total_pages[t] ]_vars

\* Both reconciliations have completed and their INSERTs interleaved: a row
\* of one structure lies between two rows of the other in serial order
C29_Witness ==
    \E s \in Structures : \E t \in Structures \ {s} :
        /\ pc[s] = "done" /\ result[s] = "True"
        /\ pc[t] = "done" /\ result[t] = "True"
        /\ \E i \in 1..Len(website_pages[s]) :
              \E j, k \in 1..Len(website_pages[t]) :
                  /\ website_pages[t][j].id < website_pages[s][i].id
                  /\ website_pages[s][i].id < website_pages[t][k].id
        /\ total_pages[s] = Len(website_pages[s])
        /\ total_pages[t] = Len(website_pages[t])

\* How many times a company has been counted by the run
TimesCounted(c) ==
    Cardinality({ k \in 1..Len(batch.outcome) : batch.outcome[k].company = c })

\* C30: at every point of the run processed = successful + failed and no
\* company is counted twice; when the run has ended every selected company
\* has been counted exactly once, as successful or as failed, and processed
\* is the number of selected companies.
C30_BatchAccounting ==
    /\ batch.stats.processed = batch.stats.successful + batch.stats.failed
    /\ batch.stats.processed = Len(batch.outcome)
    /\ \A k \in 1..Len(batch.companies) : TimesCounted(batch.companies[k]) <= 1
    /\ BatchOver =>
          /\ \A k \in 1..Len(batch.companies) : TimesCounted(batch.companies[k]) = 1
          /\ batch.stats.processed = Len(batch.companies)

====
